---- MODULE Spec2Model ----
(***************************************************************************)
(* inherit-profile: profile inheritance for settings.json.                 *)
(*                                                                         *)
(* A settings.json document is a sequence of one-character strings, and    *)
(* every text function of profiles.ts is an operator over such sequences,  *)
(* written with the 0-based indices of the TypeScript source.  A parsed    *)
(* JSON object is a sequence of entries [k, v] in insertion order, as      *)
(* Object.entries enumerates it.                                           *)
(***************************************************************************)
EXTENDS Integers, Sequences, FiniteSets, TLC

(***************************************************************************)
(* Strings as character sequences                                          *)
(***************************************************************************)

\* /\s/ on the characters the model's documents hold
IsWhitespace(c) == c \in {" ", "\n", "\t", "\r"}

\* text[i], 0-based; out of range is JavaScript's undefined
CharAt(text, i) == IF i >= 0 /\ i < Len(text) THEN text[i + 1] ELSE "undefined"

\* text.slice(from, to), 0 <= from
Slice(text, from, to) ==
    IF from >= to \/ from >= Len(text) THEN <<>>
    ELSE SubSeq(text, from + 1, IF to > Len(text) THEN Len(text) ELSE to)

\* text.slice(from)
SliceFrom(text, from) == Slice(text, from, Len(text))

MinOf(S) == CHOOSE x \in S : \A y \in S : x <= y

\* text.indexOf(pat, from), -1 when absent
IndexOfFrom(text, pat, from) ==
    LET hits == {i \in from .. (Len(text) - Len(pat)) :
                    SubSeq(text, i + 1, i + Len(pat)) = pat}
    IN  IF hits = {} THEN -1 ELSE MinOf(hits)

IndexOf(text, pat) == IndexOfFrom(text, pat, 0)

MaxOf(S) == CHOOSE x \in S : \A y \in S : x >= y

\* text.lastIndexOf(c) for a single character, -1 when absent
LastIndexOf(text, c) ==
    LET hits == {i \in 0 .. Len(text) - 1 : text[i + 1] = c}
    IN  IF hits = {} THEN -1 ELSE MaxOf(hits)

RECURSIVE TrimEndLen(_, _)
TrimEndLen(text, n) ==
    IF n = 0 THEN 0
    ELSE IF ~IsWhitespace(text[n]) THEN n
    ELSE TrimEndLen(text, n - 1)

\* text.trimEnd()
TrimEnd(text) == SubSeq(text, 1, TrimEndLen(text, Len(text)))

\* text.replace(/\s*$/, "\n"): the trailing whitespace run becomes one newline
ReplaceTrailingWhitespace(text) == TrimEnd(text) \o <<"\n">>

\* text.endsWith(suffix)
EndsWith(text, suffix) ==
    /\ Len(text) >= Len(suffix)
    /\ SubSeq(text, Len(text) - Len(suffix) + 1, Len(text)) = suffix

\* " ".repeat(n)
RECURSIVE Repeat(_, _)
Repeat(c, n) == IF n <= 0 THEN <<>> ELSE <<c>> \o Repeat(c, n - 1)

(***************************************************************************)
(* The marker and warning lines of the managed block                       *)
(***************************************************************************)

INHERITED_SETTINGS_START_MARKER ==
    <<"/", "/", " ", "-", "-", "-", " ", "I", "N", "H", "E", "R", "I", "T",
      "E", "D", " ", "S", "E", "T", "T", "I", "N", "G", "S", " ", "M", "A",
      "R", "K", "E", "R", " ", "S", "T", "A", "R", "T", " ", "-", "-", "-",
      " ", "/", "/">>

INHERITED_SETTINGS_END_MARKER ==
    <<"/", "/", " ", "-", "-", "-", " ", "I", "N", "H", "E", "R", "I", "T",
      "E", "D", " ", "S", "E", "T", "T", "I", "N", "G", "S", " ", "M", "A",
      "R", "K", "E", "R", " ", "E", "N", "D", " ", "-", "-", "-", " ", "/",
      "/">>

WARNING_COMMENT ==
    <<"/", "/", " ", "W", "A", "R", "N", "I", "N", "G", ":", " ", "D", "o",
      " ", "n", "o", "t", " ", "r", "e", "m", "o", "v", "e", " ", "t", "h",
      "e", " ", "i", "n", "h", "e", "r", "i", "t", "e", "d", " ", "s", "e",
      "t", "t", "i", "n", "g", "s", " ", "s", "t", "a", "r", "t", " ", "a",
      "n", "d", " ", "e", "n", "d", " ", "m", "a", "r", "k", "e", "r", "s",
      ".">>

WARNING_EXPLAIN ==
    <<"/", "/", " ", " ", " ", " ", " ", " ", " ", " ", " ", " ", "T", "h",
      "e", " ", "m", "a", "r", "k", "e", "r", "s", " ", "a", "r", "e", " ",
      "u", "s", "e", "d", " ", "t", "o", " ", "i", "d", "e", "n", "t", "i",
      "f", "y", " ", "i", "n", "s", "e", "r", "t", "e", "d", " ", "i", "n",
      "h", "e", "r", "i", "t", "e", "d", " ", "s", "e", "t", "t", "i", "n",
      "g", "s", ".">>

(***************************************************************************)
(* JSONC lexical scanner                                                   *)
(***************************************************************************)

\* One turn of the for loop of getLastMeaningfulCharacterIndex.  st holds the
\* loop's variables; st.i is the index the loop has advanced to, so that a turn
\* for an index the loop has jumped over changes nothing (break sets it past the
\* end).
LastMeaningfulStep(text, st, i) ==
    IF i < st.i THEN st
    ELSE
    LET char == CharAt(text, i)
        prevChar == CharAt(text, i - 1)
        nextChar == CharAt(text, i + 1)
    IN  IF st.inMultiLineComment THEN
            IF char = "*" /\ nextChar = "/"
            THEN [st EXCEPT !.inMultiLineComment = FALSE, !.i = i + 2]
            ELSE [st EXCEPT !.i = i + 1]
        ELSE IF st.inString THEN
            [st EXCEPT !.inString = ~(char = st.stringChar /\ prevChar # "\\"),
                       !.lastMeaningfulIndex = i, !.i = i + 1]
        ELSE IF char = "/" /\ nextChar = "/" THEN
            LET newlineIndex == IndexOfFrom(text, <<"\n">>, i)
            IN  IF newlineIndex = -1 THEN [st EXCEPT !.i = Len(text)]
                ELSE [st EXCEPT !.i = newlineIndex + 1]
        ELSE IF char = "/" /\ nextChar = "*" THEN
            [st EXCEPT !.inMultiLineComment = TRUE, !.i = i + 2]
        ELSE IF char = "\"" \/ char = "'" THEN
            [st EXCEPT !.inString = TRUE, !.stringChar = char,
                       !.lastMeaningfulIndex = i, !.i = i + 1]
        ELSE IF ~IsWhitespace(char) THEN
            [st EXCEPT !.lastMeaningfulIndex = i, !.i = i + 1]
        ELSE [st EXCEPT !.i = i + 1]

\* The turns lo .. hi - 1 of the loop, in order
RECURSIVE LastMeaningfulLoop(_, _, _, _)
LastMeaningfulLoop(text, st, lo, hi) ==
    IF lo >= hi THEN st
    ELSE IF hi = lo + 1 THEN LastMeaningfulStep(text, st, lo)
    ELSE LET mid == (lo + hi) \div 2
             half == LastMeaningfulLoop(text, st, lo, mid)
         IN  IF half.i >= 0 THEN LastMeaningfulLoop(text, half, mid, hi) ELSE half

GetLastMeaningfulCharacterIndex(text) ==
    LastMeaningfulLoop(text,
        [i |-> 0, inMultiLineComment |-> FALSE, inString |-> FALSE,
         stringChar |-> "", lastMeaningfulIndex |-> -1],
        0, Len(text)).lastMeaningfulIndex

\* One turn of the for loop of removeTrailingComma, which tracks the last two
\* meaningful characters; st as in LastMeaningfulStep.
TrailingCommaStep(text, st, i) ==
    IF i < st.i THEN st
    ELSE
    LET char == CharAt(text, i)
        prevChar == CharAt(text, i - 1)
        nextChar == CharAt(text, i + 1)
    IN  IF st.inMultiLineComment THEN
            IF char = "*" /\ nextChar = "/"
            THEN [st EXCEPT !.inMultiLineComment = FALSE, !.i = i + 2]
            ELSE [st EXCEPT !.i = i + 1]
        ELSE IF st.inString THEN
            [st EXCEPT !.inString = ~(char = st.stringChar /\ prevChar # "\\"),
                       !.secondToLastMeaningfulIndex = st.lastMeaningfulIndex,
                       !.lastMeaningfulIndex = i, !.i = i + 1]
        ELSE IF char = "/" /\ nextChar = "/" THEN
            LET newlineIndex == IndexOfFrom(text, <<"\n">>, i)
            IN  IF newlineIndex = -1 THEN [st EXCEPT !.i = Len(text)]
                ELSE [st EXCEPT !.i = newlineIndex + 1]
        ELSE IF char = "/" /\ nextChar = "*" THEN
            [st EXCEPT !.inMultiLineComment = TRUE, !.i = i + 2]
        ELSE IF char = "\"" \/ char = "'" THEN
            [st EXCEPT !.inString = TRUE, !.stringChar = char,
                       !.secondToLastMeaningfulIndex = st.lastMeaningfulIndex,
                       !.lastMeaningfulIndex = i, !.i = i + 1]
        ELSE IF ~IsWhitespace(char) THEN
            [st EXCEPT !.secondToLastMeaningfulIndex = st.lastMeaningfulIndex,
                       !.lastMeaningfulIndex = i, !.i = i + 1]
        ELSE [st EXCEPT !.i = i + 1]

RECURSIVE TrailingCommaLoop(_, _, _, _)
TrailingCommaLoop(text, st, lo, hi) ==
    IF lo >= hi THEN st
    ELSE IF hi = lo + 1 THEN TrailingCommaStep(text, st, lo)
    ELSE LET mid == (lo + hi) \div 2
             half == TrailingCommaLoop(text, st, lo, mid)
         IN  IF half.i >= 0 THEN TrailingCommaLoop(text, half, mid, hi) ELSE half

\* The index of the comma removeTrailingComma elides, -1 when it elides none.
TrailingCommaIndex(text) ==
    LET found == TrailingCommaLoop(text,
                         [i |-> 0, inMultiLineComment |-> FALSE,
                          inString |-> FALSE, stringChar |-> "",
                          lastMeaningfulIndex |-> -1,
                          secondToLastMeaningfulIndex |-> -1],
                         0, Len(text))
        lastMeaningfulIndex == found.lastMeaningfulIndex
        secondToLastMeaningfulIndex == found.secondToLastMeaningfulIndex
        lastMeaningfulChar == CharAt(text, lastMeaningfulIndex)
    IN  IF lastMeaningfulIndex = -1 THEN -1
        ELSE IF lastMeaningfulChar = "," THEN lastMeaningfulIndex
        ELSE IF /\ lastMeaningfulChar \in {"}", "]"}
                /\ secondToLastMeaningfulIndex # -1
                /\ CharAt(text, secondToLastMeaningfulIndex) = ","
             THEN secondToLastMeaningfulIndex
        ELSE -1

RemoveTrailingComma(text) ==
    LET at == TrailingCommaIndex(text)
    IN  IF at = -1 THEN text
        ELSE Slice(text, 0, at) \o SliceFrom(text, at + 1)

\* The first line that has leading spaces or tabs and is not blank decides.
RECURSIVE FindTabFrom(_, _)
FindTabFrom(raw, start) ==
    IF start > Len(raw) THEN <<" ", " ", " ", " ">>
    ELSE
    LET newlineIndex == IndexOfFrom(raw, <<"\n">>, start)
        lineEnd == IF newlineIndex = -1 THEN Len(raw) ELSE newlineIndex
        line == Slice(raw, start, lineEnd)
        first == CharAt(line, 0)
        spaces == MinOf({n \in 0 .. Len(line) : CharAt(line, n) # " "})
    IN  IF TrimEndLen(line, Len(line)) = 0 \/ first \notin {" ", "\t"}
        THEN IF newlineIndex = -1 THEN <<" ", " ", " ", " ">>
             ELSE FindTabFrom(raw, newlineIndex + 1)
        ELSE IF first = "\t" THEN <<"\t">>
        ELSE Repeat(" ", spaces)

FindTabValue(raw) == FindTabFrom(raw, 0)

(***************************************************************************)
(* JSON values and objects                                                 *)
(***************************************************************************)

\* A value: t is its type; n a number, s a string's or a literal's characters,
\* a an array's elements, o an object's entries [k, v] in insertion order.
Num(n) == [t |-> "num", n |-> n, s |-> <<>>, a |-> <<>>, o |-> <<>>]
Str(s) == [t |-> "str", n |-> 0, s |-> s, a |-> <<>>, o |-> <<>>]
Lit(s) == [t |-> "lit", n |-> 0, s |-> s, a |-> <<>>, o |-> <<>>]
Arr(a) == [t |-> "arr", n |-> 0, s |-> <<>>, a |-> a, o |-> <<>>]
Obj(o) == [t |-> "obj", n |-> 0, s |-> <<>>, a |-> <<>>, o |-> o]
Undefined == [t |-> "undefined", n |-> 0, s |-> <<>>, a |-> <<>>, o |-> <<>>]

Entry(k, v) == [k |-> k, v |-> v]

\* Object.keys(obj), as a set
KeySet(obj) == {obj[i].k : i \in 1 .. Len(obj)}

\* Object.prototype.hasOwnProperty.call(obj, key)
HasOwn(obj, key) == key \in KeySet(obj)

\* obj[key] for an own key
Get(obj, key) == obj[CHOOSE i \in 1 .. Len(obj) : obj[i].k = key].v

\* obj[key] = value adding an entry even when the key is there already
PutAppending(obj, key, value) == Append(obj, Entry(key, value))

\* obj[key] = value: an existing key keeps its place, a new key goes last
Put(obj, key, value) ==
    IF HasOwn(obj, key)
    THEN [i \in 1 .. Len(obj) |->
             IF obj[i].k = key THEN Entry(key, value) ELSE obj[i]]
    ELSE Append(obj, Entry(key, value))

\* The property names every object literal inherits from Object.prototype.
ObjectPrototypeKeys ==
    { <<"c", "o", "n", "s", "t", "r", "u", "c", "t", "o", "r">>,
      <<"t", "o", "S", "t", "r", "i", "n", "g">>,
      <<"t", "o", "L", "o", "c", "a", "l", "e", "S", "t", "r", "i", "n", "g">>,
      <<"v", "a", "l", "u", "e", "O", "f">>,
      <<"h", "a", "s", "O", "w", "n", "P", "r", "o", "p", "e", "r", "t", "y">>,
      <<"i", "s", "P", "r", "o", "t", "o", "t", "y", "p", "e", "O", "f">>,
      <<"p", "r", "o", "p", "e", "r", "t", "y", "I", "s", "E", "n", "u", "m",
        "e", "r", "a", "b", "l", "e">>,
      <<"_", "_", "p", "r", "o", "t", "o", "_", "_">> }

\* key in obj: an own property or one inherited through the prototype chain
In(key, obj) == HasOwn(obj, key) \/ key \in ObjectPrototypeKeys

Digits == <<"0", "1", "2", "3", "4", "5", "6", "7", "8", "9">>

IsDigit(c) == \E d \in 1 .. 10 : Digits[d] = c

DigitValue(c) == (CHOOSE d \in 1 .. 10 : Digits[d] = c) - 1

RECURSIVE NatToChars(_)
NatToChars(n) ==
    IF n < 10 THEN <<Digits[n + 1]>>
    ELSE NatToChars(n \div 10) \o <<Digits[(n % 10) + 1]>>

RECURSIVE CharsToNat(_, _)
CharsToNat(chars, acc) ==
    IF chars = <<>> THEN acc
    ELSE CharsToNat(Tail(chars), 10 * acc + DigitValue(Head(chars)))

\* The characters JSON.stringify puts between the quotes of a string
RECURSIVE EscapeChars(_)
EscapeChars(s) ==
    IF s = <<>> THEN <<>>
    ELSE LET c == Head(s)
         IN  (CASE c = "\"" -> <<"\\", "\"">>
                [] c = "\\" -> <<"\\", "\\">>
                [] c = "\n" -> <<"\\", "n">>
                [] c = "\t" -> <<"\\", "t">>
                [] OTHER -> <<c>>) \o EscapeChars(Tail(s))

RECURSIVE JoinWith(_, _)
JoinWith(parts, sep) ==
    IF parts = <<>> THEN <<>>
    ELSE IF Len(parts) = 1 THEN parts[1]
    ELSE parts[1] \o sep \o JoinWith(Tail(parts), sep)

\* JSON.stringify(value) of a leaf value
RECURSIVE JsonStringify(_)
JsonStringify(value) ==
    CASE value.t = "num" -> NatToChars(value.n)
      [] value.t = "str" -> <<"\"">> \o EscapeChars(value.s) \o <<"\"">>
      [] value.t = "lit" -> value.s
      [] value.t = "arr" ->
            <<"[">> \o JoinWith([i \in 1 .. Len(value.a) |->
                                    JsonStringify(value.a[i])], <<",">>)
                    \o <<"]">>
      [] value.t = "obj" ->
            <<"{">> \o JoinWith([i \in 1 .. Len(value.o) |->
                                    <<"\"">> \o EscapeChars(value.o[i].k)
                                    \o <<"\"", ":">>
                                    \o JsonStringify(value.o[i].v)], <<",">>)
                    \o <<"}">>

(***************************************************************************)
(* parse of jsonc-parser, as readJSON uses it: fault tolerant, comments    *)
(* skipped, errors collected and ignored                                   *)
(***************************************************************************)

Tok(kind, val) == [kind |-> kind, val |-> val]

Letters ==
    {"a", "b", "c", "d", "e", "f", "g", "h", "i", "j", "k", "l", "m", "n",
     "o", "p", "q", "r", "s", "t", "u", "v", "w", "x", "y", "z"}

\* The end (exclusive) of the run of characters in `class` that starts at i
RunEnd(text, i, class) ==
    MinOf({j \in i .. Len(text) : j = Len(text) \/ text[j + 1] \notin class})

\* The character an escape sequence \c stands for
Unescape(c) ==
    CASE c = "n" -> "\n"
      [] c = "t" -> "\t"
      [] c = "r" -> "\r"
      [] OTHER -> c

\* Inside a string literal whose content starts at `from`: whether the
\* character at i follows a backslash that is not itself escaped
IsEscaped(text, from, i) ==
    /\ i > from
    /\ text[i] = "\\"
    /\ LET runStart == MinOf({s \in from .. i :
                                \A k \in s .. i - 1 : text[k + 1] = "\\"})
       IN  (i - runStart) % 2 = 1

\* The scanner inside a string literal whose content starts at i: the literal
\* ends at its closing quote, at a line break or at the end of the text
ScanString(text, i) ==
    LET stops == {j \in i .. Len(text) - 1 :
                    /\ text[j + 1] \in {"\"", "\n", "\r"}
                    /\ ~IsEscaped(text, i, j)}
        end == IF stops = {} THEN Len(text) ELSE MinOf(stops)
        Kept(k) == IsEscaped(text, i, k) \/ text[k + 1] # "\\"
        kept == SelectSeq([n \in 1 .. end - i |-> i + n - 1], Kept)
    IN  [val |-> [n \in 1 .. Len(kept) |->
                     IF IsEscaped(text, i, kept[n])
                     THEN Unescape(text[kept[n] + 1])
                     ELSE text[kept[n] + 1]],
         next |-> IF end < Len(text) /\ text[end + 1] = "\"" THEN end + 1
                  ELSE end]

\* One turn of the scanner at index i: st.i is the index scanning has advanced
\* to, st.toks the tokens so far; whitespace and comments are skipped
TokenizeStep(text, st, i) ==
    IF i < st.i THEN st
    ELSE
    LET c == text[i + 1]
        nextChar == CharAt(text, i + 1)
    IN  IF IsWhitespace(c) THEN [st EXCEPT !.i = i + 1]
        ELSE IF c = "/" /\ nextChar = "/" THEN
            LET newlineIndex == IndexOfFrom(text, <<"\n">>, i)
            IN  [st EXCEPT !.i = IF newlineIndex = -1 THEN Len(text)
                                 ELSE newlineIndex + 1]
        ELSE IF c = "/" /\ nextChar = "*" THEN
            LET close == IndexOfFrom(text, <<"*", "/">>, i + 2)
            IN  [st EXCEPT !.i = IF close = -1 THEN Len(text) ELSE close + 2]
        ELSE IF c \in {"{", "}", "[", "]", ",", ":"} THEN
            [i |-> i + 1, toks |-> Append(st.toks, Tok(c, <<>>))]
        ELSE IF c = "\"" THEN
            LET str == ScanString(text, i + 1)
            IN  [i |-> str.next, toks |-> Append(st.toks, Tok("str", str.val))]
        ELSE IF IsDigit(c) THEN
            LET end == RunEnd(text, i, {Digits[d] : d \in 1 .. 10})
            IN  [i |-> end,
                 toks |-> Append(st.toks, Tok("num", Slice(text, i, end)))]
        ELSE IF c \in Letters THEN
            LET end == RunEnd(text, i, Letters)
                word == Slice(text, i, end)
            IN  [i |-> end,
                 toks |-> Append(st.toks,
                     Tok(IF word \in {<<"t", "r", "u", "e">>,
                                      <<"f", "a", "l", "s", "e">>,
                                      <<"n", "u", "l", "l">>}
                         THEN "lit" ELSE "unknown", word))]
        ELSE [i |-> i + 1, toks |-> Append(st.toks, Tok("unknown", <<c>>))]

RECURSIVE TokenizeLoop(_, _, _, _)
TokenizeLoop(text, st, lo, hi) ==
    IF lo >= hi THEN st
    ELSE IF hi = lo + 1 THEN TokenizeStep(text, st, lo)
    ELSE LET mid == (lo + hi) \div 2
             half == TokenizeLoop(text, st, lo, mid)
         IN  IF half.i >= 0 THEN TokenizeLoop(text, half, mid, hi) ELSE half

\* The tokens of text
Tokenize(text) == TokenizeLoop(text, [i |-> 0, toks |-> <<>>], 0, Len(text)).toks

TokAt(toks, p) == IF p <= Len(toks) THEN toks[p] ELSE Tok("eof", <<>>)

\* handleError's skip: the first position from p on whose token is in `until`
\* (or the end of the tokens)
SkipUntil(toks, p, until) ==
    MinOf({q \in p .. Len(toks) + 1 : TokAt(toks, q).kind \in until \cup {"eof"}})

\* parseValue, parseObject and parseArray: [ok, v, p], p the position after it
RECURSIVE ParseValue(_, _), ParseMembers(_, _, _, _), ParseElements(_, _, _, _)
ParseValue(toks, p) ==
    LET tok == TokAt(toks, p)
    IN  CASE tok.kind = "{" ->
                LET r == ParseMembers(toks, p + 1, FALSE, <<>>)
                IN  [ok |-> TRUE, v |-> Obj(r.v), p |-> r.p]
          [] tok.kind = "[" ->
                LET r == ParseElements(toks, p + 1, FALSE, <<>>)
                IN  [ok |-> TRUE, v |-> Arr(r.v), p |-> r.p]
          [] tok.kind = "str" -> [ok |-> TRUE, v |-> Str(tok.val), p |-> p + 1]
          [] tok.kind = "num" ->
                [ok |-> TRUE, v |-> Num(CharsToNat(tok.val, 0)), p |-> p + 1]
          [] tok.kind = "lit" -> [ok |-> TRUE, v |-> Lit(tok.val), p |-> p + 1]
          [] OTHER -> [ok |-> FALSE, v |-> Undefined, p |-> p]

\* The while loop of parseObject; acc holds the properties set so far
ParseMembers(toks, p, needsComma, acc) ==
    LET tok == TokAt(toks, p)
    IN  IF tok.kind = "}" THEN [v |-> acc, p |-> p + 1]
        ELSE IF tok.kind = "eof" THEN [v |-> acc, p |-> p]
        ELSE
        LET p1 == IF tok.kind = "," THEN p + 1 ELSE p
            name == TokAt(toks, p1)
        IN  IF name.kind # "str"
            THEN ParseMembers(toks, SkipUntil(toks, p1, {"}", ","}), TRUE, acc)
            ELSE IF TokAt(toks, p1 + 1).kind # ":"
            THEN ParseMembers(toks, SkipUntil(toks, p1 + 1, {"}", ","}),
                              TRUE, acc)
            ELSE LET r == ParseValue(toks, p1 + 2)
                 IN  IF r.ok
                     THEN ParseMembers(toks, r.p, TRUE,
                                       Put(acc, name.val, r.v))
                     ELSE ParseMembers(toks,
                                       SkipUntil(toks, r.p, {"}", ","}),
                                       TRUE, acc)

\* The while loop of parseArray
ParseElements(toks, p, needsComma, acc) ==
    LET tok == TokAt(toks, p)
    IN  IF tok.kind = "]" THEN [v |-> acc, p |-> p + 1]
        ELSE IF tok.kind = "eof" THEN [v |-> acc, p |-> p]
        ELSE
        LET p1 == IF tok.kind = "," THEN p + 1 ELSE p
            r == ParseValue(toks, p1)
        IN  IF r.ok THEN ParseElements(toks, r.p, TRUE, Append(acc, r.v))
            ELSE ParseElements(toks, SkipUntil(toks, r.p, {"]", ","}),
                               TRUE, acc)

\* parse(raw): the root value, undefined when the text holds none
ParseJsonc(raw) == ParseValue(Tokenize(raw), 1).v

(***************************************************************************)
(* Settings flattener, merger and inheritance calculator                   *)
(***************************************************************************)

\* Object.entries(value) throws a TypeError for undefined and null
EntriesThrow(value) ==
    value.t = "undefined" \/ value = Lit(<<"n", "u", "l", "l">>)

\* Object.entries(value): an object's own entries, an array's or a string's
\* indexed elements, nothing for a number or a boolean
ObjectEntries(value) ==
    CASE value.t = "obj" -> value.o
      [] value.t = "arr" ->
            [i \in 1 .. Len(value.a) |-> Entry(NatToChars(i - 1), value.a[i])]
      [] value.t = "str" ->
            [i \in 1 .. Len(value.s) |->
                Entry(NatToChars(i - 1), Str(<<value.s[i]>>))]
      [] OTHER -> <<>>

\* flattenSettings naming a nested setting by its own key alone
RECURSIVE FlattenSettingsUnprefixed(_, _, _)
FlattenSettingsUnprefixed(settings, parentKey, result) ==
    IF settings = <<>> THEN result
    ELSE
    LET key == Head(settings).k
        value == Head(settings).v
    IN  IF value.t = "obj"
        THEN FlattenSettingsUnprefixed(Tail(settings), parentKey,
                 FlattenSettingsUnprefixed(value.o, key, result))
        ELSE FlattenSettingsUnprefixed(Tail(settings), parentKey,
                 Put(result, key, value))

\* flattenSettings(settings, parentKey, result), settings given by its entries
RECURSIVE FlattenSettings(_, _, _)
FlattenSettings(settings, parentKey, result) ==
    IF settings = <<>> THEN result
    ELSE
    LET key == Head(settings).k
        value == Head(settings).v
        newKey == IF parentKey # <<>> THEN parentKey \o <<".">> \o key ELSE key
    IN  IF value.t = "obj"
        THEN FlattenSettings(Tail(settings), parentKey,
                             FlattenSettings(value.o, newKey, result))
        ELSE FlattenSettings(Tail(settings), parentKey,
                             Put(result, newKey, value))

\* flattenSettings(value) with the default parentKey and result
Flatten(value) == FlattenSettings(ObjectEntries(value), <<>>, <<>>)

\* { ...source, ...target }: the spread the wrong way round
RECURSIVE MergeFlattenedSettingsTargetWins(_, _)
MergeFlattenedSettingsTargetWins(target, source) ==
    IF target = <<>> THEN source
    ELSE MergeFlattenedSettingsTargetWins(
             Tail(target), Put(source, Head(target).k, Head(target).v))

\* { ...target, ...source }
RECURSIVE MergeFlattenedSettings(_, _)
MergeFlattenedSettings(target, source) ==
    IF source = <<>> THEN target
    ELSE MergeFlattenedSettings(Put(target, Head(source).k, Head(source).v),
                                Tail(source))

\* subtractSettings(base, toRemove): the entries of base whose key is not
\* `in` toRemove
RECURSIVE SubtractSettings(_, _)
SubtractSettings(base, toRemove) ==
    IF base = <<>> THEN <<>>
    ELSE IF ~In(Head(base).k, toRemove)
         THEN <<Head(base)>> \o SubtractSettings(Tail(base), toRemove)
         ELSE SubtractSettings(Tail(base), toRemove)

\* The collation order of the characters the model's keys hold
Collation ==
    <<"_", ".", "0", "1", "2", "3", "4", "5", "6", "7", "8", "9",
      "a", "b", "c", "d", "e", "E", "f", "g", "h", "i", "I", "j", "k", "l",
      "L", "m", "n", "o", "O", "p", "P", "q", "r", "s", "S", "t", "u", "v",
      "w", "x", "y", "z">>

Rank(c) == CHOOSE r \in 1 .. Len(Collation) : Collation[r] = c

\* a.localeCompare(b) < 0
RECURSIVE ComesBefore(_, _)
ComesBefore(a, b) ==
    IF b = <<>> THEN FALSE
    ELSE IF a = <<>> THEN TRUE
    ELSE IF Head(a) = Head(b) THEN ComesBefore(Tail(a), Tail(b))
    ELSE Rank(Head(a)) < Rank(Head(b))

RECURSIVE InsertSorted(_, _)
InsertSorted(sorted, entry) ==
    IF sorted = <<>> THEN <<entry>>
    ELSE IF ComesBefore(entry.k, Head(sorted).k) THEN <<entry>> \o sorted
    ELSE <<Head(sorted)>> \o InsertSorted(Tail(sorted), entry)

\* sortSettings(settings): the entries in ascending key order
RECURSIVE SortSettings(_)
SortSettings(settings) ==
    IF settings = <<>> THEN <<>>
    ELSE InsertSorted(SortSettings(Tail(settings)), Head(settings))

(***************************************************************************)
(* Block splicer                                                           *)
(***************************************************************************)

\* buildInheritedSettingsBlock(flattened, tab)
BuildInheritedSettingsBlock(flattened, tab) ==
    LET entries ==
            JoinWith([i \in 1 .. Len(flattened) |->
                         tab \o <<"\"">> \o flattened[i].k \o <<"\"", ":", " ">>
                             \o JsonStringify(flattened[i].v)],
                     <<",", "\n">>)
    IN  tab \o INHERITED_SETTINGS_START_MARKER \o <<"\n">>
        \o tab \o WARNING_COMMENT \o <<"\n">>
        \o tab \o WARNING_EXPLAIN \o <<"\n">>
        \o entries \o (IF entries # <<>> THEN <<"\n">> ELSE <<>>)
        \o tab \o INHERITED_SETTINGS_END_MARKER \o <<"\n">>

\* splitRawSettingsByClosingBrace(raw): <<beforeClose, afterClose>>
SplitRawSettingsByClosingBrace(raw) ==
    LET closingIndex == LastIndexOf(raw, "}")
    IN  IF closingIndex = -1 THEN << <<"{", "\n">>, <<"}", "\n">> >>
        ELSE <<Slice(raw, 0, closingIndex), SliceFrom(raw, closingIndex)>>

\* insertBeforeClose losing the text between the last meaningful character and
\* the closing brace when it inserts a comma
InsertBeforeCloseDroppingAfter(beforeClose, block) ==
    LET meaningfulCharIndex == GetLastMeaningfulCharacterIndex(beforeClose)
        meaningfulChar == CharAt(beforeClose, meaningfulCharIndex)
        needsComma ==
            /\ \E i \in 1 .. Len(beforeClose) : ~IsWhitespace(beforeClose[i])
            /\ meaningfulChar # "{"
            /\ meaningfulChar # ","
    IN  IF meaningfulCharIndex = -1 \/ ~needsComma
        THEN ReplaceTrailingWhitespace(beforeClose) \o block
        ELSE Slice(beforeClose, 0, meaningfulCharIndex + 1)
             \o <<",", "\n">> \o block

\* insertBeforeClose(beforeClose, block)
InsertBeforeClose(beforeClose, block) ==
    LET meaningfulCharIndex == GetLastMeaningfulCharacterIndex(beforeClose)
        meaningfulChar == CharAt(beforeClose, meaningfulCharIndex)
        needsComma ==
            /\ \E i \in 1 .. Len(beforeClose) : ~IsWhitespace(beforeClose[i])
            /\ meaningfulChar # "{"
            /\ meaningfulChar # ","
        before == Slice(beforeClose, 0, meaningfulCharIndex + 1)
        after == SliceFrom(beforeClose, meaningfulCharIndex + 1)
    IN  IF meaningfulCharIndex = -1
        THEN ReplaceTrailingWhitespace(beforeClose) \o block
        ELSE IF ~needsComma
        THEN ReplaceTrailingWhitespace(beforeClose) \o block
        ELSE before \o <<",">> \o ReplaceTrailingWhitespace(after) \o block

\* The text writeInheritedSettings writes for the raw file it read
\* (flattened is not empty)
InsertBlock(raw, flattened) ==
    LET split == SplitRawSettingsByClosingBrace(raw)
        tab == FindTabValue(raw)
        block == BuildInheritedSettingsBlock(flattened, tab)
    IN  InsertBeforeClose(split[1], block) \o split[2]

\* removeInheritedSettingsFromFile without the test on the markers' order
HasRemovableBlockAnyOrder(raw) ==
    LET startIndex == IndexOf(raw, INHERITED_SETTINGS_START_MARKER)
        endIndex == IndexOf(raw, INHERITED_SETTINGS_END_MARKER)
    IN  ~(startIndex = -1 \/ endIndex = -1)

\* Whether removeInheritedSettingsFromFile finds a block to remove in raw
HasRemovableBlock(raw) ==
    LET startIndex == IndexOf(raw, INHERITED_SETTINGS_START_MARKER)
        endIndex == IndexOf(raw, INHERITED_SETTINGS_END_MARKER)
    IN  ~(startIndex = -1 \/ endIndex = -1 \/ endIndex < startIndex)

\* removeInheritedSettingsFromFile cutting up to the end marker, not past it
CleanedTextKeepingEndMarker(raw) ==
    LET startIndex == IndexOf(raw, INHERITED_SETTINGS_START_MARKER)
        endIndex == IndexOf(raw, INHERITED_SETTINGS_END_MARKER)
        before == Slice(raw, 0, startIndex)
        after == SliceFrom(raw, endIndex)
        cleaned == RemoveTrailingComma(TrimEnd(before) \o TrimEnd(after))
    IN  (IF ~EndsWith(cleaned, <<"}">>) THEN cleaned \o <<"\n", "}">>
         ELSE cleaned) \o <<"\n">>

\* The text removeInheritedSettingsFromFile writes when it found the block
CleanedText(raw) ==
    LET startIndex == IndexOf(raw, INHERITED_SETTINGS_START_MARKER)
        endIndex == IndexOf(raw, INHERITED_SETTINGS_END_MARKER)
        before == Slice(raw, 0, startIndex)
        after == SliceFrom(raw, endIndex + Len(INHERITED_SETTINGS_END_MARKER))
        cleaned == RemoveTrailingComma(TrimEnd(before) \o TrimEnd(after))
    IN  (IF ~EndsWith(cleaned, <<"}">>) THEN cleaned \o <<"\n", "}">>
         ELSE cleaned) \o <<"\n">>

\* The file after removeInheritedSettingsFromFile has run on raw
RemoveBlock(raw) == IF HasRemovableBlock(raw) THEN CleanedText(raw) ELSE raw

(***************************************************************************)
(* Storage reader and profile resolver, over the parsed storage.json       *)
(***************************************************************************)

S_id == <<"i", "d">>
S_submenu == <<"s", "u", "b", "m", "e", "n", "u">>
S_items == <<"i", "t", "e", "m", "s">>
S_checked == <<"c", "h", "e", "c", "k", "e", "d">>
S_location == <<"l", "o", "c", "a", "t", "i", "o", "n">>
S_name == <<"n", "a", "m", "e">>
S_userDataProfiles ==
    <<"u", "s", "e", "r", "D", "a", "t", "a", "P", "r", "o", "f", "i", "l",
      "e", "s">>
S_submenuitemProfiles ==
    <<"s", "u", "b", "m", "e", "n", "u", "i", "t", "e", "m", ".", "P", "r",
      "o", "f", "i", "l", "e", "s">>
S_Default == <<"D", "e", "f", "a", "u", "l", "t">>
S_profiles == <<"p", "r", "o", "f", "i", "l", "e", "s">>
S_settingsJson ==
    <<"s", "e", "t", "t", "i", "n", "g", "s", ".", "j", "s", "o", "n">>

\* value[key]: undefined when value has no such own property
Prop(value, key) ==
    IF value.t = "obj" /\ HasOwn(value.o, key) THEN Get(value.o, key)
    ELSE Undefined

\* The truthiness of a value
Truthy(value) ==
    /\ value.t # "undefined"
    /\ value \notin {Lit(<<"f", "a", "l", "s", "e">>), Lit(<<"n", "u", "l", "l">>),
                     Num(0), Str(<<>>)}

\* path.join(a, b)
PathJoin(a, b) == a \o <<"/">> \o b

\* findByKeyValuePair(input, key, value): the first object, depth first, whose
\* own property key is value
RECURSIVE FindByKeyValuePair(_, _, _), FindInEach(_, _, _)
FindByKeyValuePair(node, key, value) ==
    IF node.t = "obj" THEN
        IF HasOwn(node.o, key) /\ Get(node.o, key) = value THEN node
        ELSE FindInEach([i \in 1 .. Len(node.o) |-> node.o[i].v], key, value)
    ELSE IF node.t = "arr" THEN FindInEach(node.a, key, value)
    ELSE Undefined

FindInEach(nodes, key, value) ==
    IF nodes = <<>> THEN Undefined
    ELSE LET found == FindByKeyValuePair(Head(nodes), key, value)
         IN  IF found # Undefined THEN found
             ELSE FindInEach(Tail(nodes), key, value)

\* The for loop of getCurrentProfileName over the submenu items
RECURSIVE CheckedProfileName(_, _)
CheckedProfileName(storage, submenuItems) ==
    IF submenuItems = <<>> THEN Str(S_Default)
    ELSE
    LET submenuItem == Head(submenuItems)
        fullProfileId == Prop(submenuItem, S_id).s
        profileId == SliceFrom(fullProfileId, LastIndexOf(fullProfileId, ".") + 1)
        profileData == FindByKeyValuePair(storage, S_location, Str(profileId))
    IN  IF Truthy(Prop(submenuItem, S_checked)) /\ profileData # Undefined
        THEN Prop(profileData, S_name)
        ELSE CheckedProfileName(storage, Tail(submenuItems))

\* getCurrentProfileName over the parsed storage: the name as a value
GetCurrentProfileName(storage) ==
    LET profilesSubMenu ==
            FindByKeyValuePair(storage, S_id, Str(S_submenuitemProfiles))
    IN  IF profilesSubMenu = Undefined THEN Str(S_Default)
        ELSE CheckedProfileName(storage,
                 Prop(Prop(profilesSubMenu, S_submenu), S_items).a)

\* getCustomProfiles: storage.userDataProfiles ?? []
GetCustomProfiles(storage) == Prop(storage, S_userDataProfiles).a

\* storage.userDataProfiles throws a TypeError when storage is undefined or
\* null
GetCustomProfilesThrows(storage) ==
    storage.t = "undefined" \/ storage = Lit(<<"n", "u", "l", "l">>)

\* The for loop of getProfileMap
RECURSIVE AddCustomProfiles(_, _, _)
AddCustomProfiles(map, userDirectory, customProfiles) ==
    IF customProfiles = <<>> THEN map
    ELSE
    LET profile == Head(customProfiles)
        name == Prop(profile, S_name)
        location == Prop(profile, S_location)
    IN  AddCustomProfiles(
            IF Truthy(name) /\ Truthy(location)
            THEN Put(map, name.s,
                     PathJoin(PathJoin(userDirectory, S_profiles), location.s))
            ELSE map,
            userDirectory, Tail(customProfiles))

\* getProfileMap: profile name -> profile directory
GetProfileMap(storage, userDirectory) ==
    AddCustomProfiles(<<Entry(S_Default, userDirectory)>>, userDirectory,
                      GetCustomProfiles(storage))

\* The loop body of getProfileSettings for one profile name; json maps a
\* settings.json path to what readJSON returns for it
\* profileMap[profileName] finds a property the map inherits from
\* Object.prototype, which is no string: path.join throws a TypeError
ProfilePathThrows(profileMap, profileName) ==
    ~HasOwn(profileMap, profileName) /\ profileName \in ObjectPrototypeKeys

CollectProfile(profileMap, json, profileName, settings) ==
    IF ~HasOwn(profileMap, profileName) THEN settings
    ELSE MergeFlattenedSettings(settings,
             Flatten(json[PathJoin(Get(profileMap, profileName),
                                   S_settingsJson)]))

RECURSIVE CollectProfiles(_, _, _, _)
CollectProfiles(profileMap, json, profiles, settings) ==
    IF profiles = <<>> THEN settings
    ELSE CollectProfiles(profileMap, json, Tail(profiles),
             CollectProfile(profileMap, json, Head(profiles), settings))

\* getProfileSettings(context, profiles)
GetProfileSettings(profileMap, json, profiles) ==
    FlattenSettings(CollectProfiles(profileMap, json, profiles, <<>>),
                    <<>>, <<>>)

(***************************************************************************)
(* The files and the runs                                                  *)
(***************************************************************************)

VARIABLES
    fs,        \* path -> the file's text, or Missing
    parents,   \* the configured inheritProfile.parents
    run,       \* the command in progress, as far as its awaits have got
    detached,  \* the removeInheritedSettingsFromFile calls nobody awaits
    commands,  \* how many commands have been started
    hist,      \* the commands that returned: what each found and left behind
    arg,       \* the input of the functions applied on their own
    result,    \* what the functions applied on their own returned
    watcher    \* the profile-change watcher: what it remembers and has in flight

vars == <<fs, parents, run, detached, commands, hist, arg, result, watcher>>

\* The variables of the commands, and those of the functions applied on their own
program == <<fs, parents, run, detached, commands, hist>>
functions == <<arg, result>>

\* The commands one behaviour starts
MaxCommands == 2

UserDirectory == <<"U", "s", "e", "r">>
GlobalStoragePath == <<"U", "s", "e", "r", "/", "g", "l", "o", "b", "a", "l", "S", "t", "o", "r", "a", "g", "e", "/", "s", "t", "o", "r", "a", "g", "e", ".", "j", "s", "o", "n">>
S_Work == <<"W", "o", "r", "k">>
S_workLocation == <<"w">>
S_entryPrefix == <<"p", "r", "o", "f", "i", "l", "e", "E", "n", "t", "r", "y", ".">>
S_defaultLocation == <<"_", "_", "d", "e", "f", "a", "u", "l", "t", "_", "_", "p", "r", "o", "f", "i", "l", "e", "_", "_">>

Missing == <<"ENOENT">>

SettingsPath(directory) == PathJoin(directory, S_settingsJson)

WorkDirectory == PathJoin(PathJoin(UserDirectory, S_profiles), S_workLocation)

\* readJSON of a file's content: {} when the read fails
ReadJSON(content) ==
    IF content = Missing THEN Obj(<<>>) ELSE ParseJsonc(content)

JsonOf(files) == [p \in DOMAIN files |-> ReadJSON(files[p])]

\* runOnProfileChange is off: no watcher is created
NoWatcher == <<>>

IdleRun ==
    [op |-> "none", pc |-> "idle", name |-> <<>>, path |-> <<>>,
     own |-> <<>>, settings |-> <<>>, i |-> 0, inherited |-> <<>>,
     raw |-> <<>>, start |-> <<>>]

\* A removeInheritedSettingsFromFile call: before its read, or holding the
\* cleaned text it is about to write
RemoveTask(pc, path, cleaned) == [pc |-> pc, path |-> path, cleaned |-> cleaned]

DropTask(tasks, t) == [j \in 1 .. Len(tasks) - 1 |->
                          IF j < t THEN tasks[j] ELSE tasks[j + 1]]

\* applyInheritedSettings up to its call of removeInheritedSettingsFromFile,
\* which it does not await: the call logs, starts its read and is left behind
StartApply ==
    /\ run.op = "none"
    /\ commands < MaxCommands
    /\ commands' = commands + 1
    /\ LET storage == ReadJSON(fs[GlobalStoragePath])
           currentProfileName == GetCurrentProfileName(storage)
           profiles == GetProfileMap(storage, UserDirectory)
       IN  IF ~HasOwn(profiles, currentProfileName.s)
           THEN /\ run' = [IdleRun EXCEPT !.op = "apply", !.pc = "failed",
                                          !.name = currentProfileName.s]
                /\ UNCHANGED detached
           ELSE LET currentProfilePath ==
                        SettingsPath(Get(profiles, currentProfileName.s))
                IN  /\ run' = [IdleRun EXCEPT !.op = "apply", !.pc = "own",
                                   !.name = currentProfileName.s,
                                   !.path = currentProfilePath,
                                   !.start = fs[currentProfilePath]]
                    /\ detached' = Append(detached,
                           RemoveTask("read", currentProfilePath, <<>>))
    /\ UNCHANGED <<fs, parents, hist, arg, result, watcher>>

\* getCurrentProfileSettings: the profile's settings.json is read and flattened
ApplyReadOwn ==
    /\ run.op = "apply" /\ run.pc = "own"
    /\ LET storage == ReadJSON(fs[GlobalStoragePath])
           currentProfileName == GetCurrentProfileName(storage)
           profileMap == GetProfileMap(storage, UserDirectory)
           json == JsonOf(fs)
       IN  IF /\ HasOwn(profileMap, currentProfileName.s)
              /\ EntriesThrow(json[SettingsPath(Get(profileMap,
                                                    currentProfileName.s))])
           THEN run' = [run EXCEPT !.pc = "failed"]
           ELSE run' = [run EXCEPT
                    !.pc = "parents", !.i = 1, !.settings = <<>>,
                    !.own = FlattenSettings(
                                GetProfileSettings(profileMap, json,
                                                   <<currentProfileName.s>>),
                                <<>>, <<>>)]
    /\ UNCHANGED <<fs, parents, detached, commands, hist, arg, result, watcher>>

\* One turn of the loop of getProfileSettings over the parent profiles
ApplyReadParent ==
    /\ run.op = "apply" /\ run.pc = "parents" /\ run.i <= Len(parents)
    /\ LET profileMap == GetProfileMap(ReadJSON(fs[GlobalStoragePath]),
                                       UserDirectory)
           json == JsonOf(fs)
           profileName == parents[run.i]
       IN  IF \/ ProfilePathThrows(profileMap, profileName)
              \/ /\ HasOwn(profileMap, profileName)
                 /\ EntriesThrow(json[SettingsPath(Get(profileMap,
                                                       profileName))])
           THEN run' = [run EXCEPT !.pc = "failed"]
           ELSE run' = [run EXCEPT
                    !.i = run.i + 1,
                    !.settings = CollectProfile(profileMap, json, profileName,
                                                run.settings)]
    /\ UNCHANGED <<fs, parents, detached, commands, hist, arg, result, watcher>>

\* The rest of getInheritedSettings, and applyInheritedSettings' early return
ApplyDiff ==
    /\ run.op = "apply" /\ run.pc = "parents" /\ run.i > Len(parents)
    /\ LET parentProfileSettings == FlattenSettings(run.settings, <<>>, <<>>)
           inheritedSettings ==
               SortSettings(SubtractSettings(parentProfileSettings, run.own))
       IN  run' = [run EXCEPT
                !.inherited = inheritedSettings,
                !.pc = IF Len(inheritedSettings) = 0 THEN "done"
                       ELSE "insertRead"]
    /\ UNCHANGED <<fs, parents, detached, commands, hist, arg, result, watcher>>

\* writeInheritedSettings reads the raw file
ApplyInsertRead ==
    /\ run.op = "apply" /\ run.pc = "insertRead"
    /\ run' = IF fs[run.path] = Missing THEN [run EXCEPT !.pc = "failed"]
              ELSE [run EXCEPT !.pc = "insertWrite", !.raw = fs[run.path]]
    /\ UNCHANGED <<fs, parents, detached, commands, hist, arg, result, watcher>>

\* writeInheritedSettings writes the file with the block inserted
ApplyInsertWrite ==
    /\ run.op = "apply" /\ run.pc = "insertWrite"
    /\ fs' = [fs EXCEPT ![run.path] = InsertBlock(run.raw, run.inherited)]
    /\ run' = [run EXCEPT !.pc = "done"]
    /\ UNCHANGED <<parents, detached, commands, hist, arg, result, watcher>>

\* removeCurrentProfileInheritedSettings up to its awaited call of
\* removeInheritedSettingsFromFile
StartRemove ==
    /\ run.op = "none"
    /\ commands < MaxCommands
    /\ commands' = commands + 1
    /\ LET storage == ReadJSON(fs[GlobalStoragePath])
           currentProfileName == GetCurrentProfileName(storage)
           profiles == GetProfileMap(storage, UserDirectory)
       IN  IF ~HasOwn(profiles, currentProfileName.s)
           THEN run' = [IdleRun EXCEPT !.op = "remove", !.pc = "failed",
                                       !.name = currentProfileName.s]
           ELSE LET currentProfilePath ==
                        SettingsPath(Get(profiles, currentProfileName.s))
                IN  run' = [IdleRun EXCEPT !.op = "remove", !.pc = "removeRead",
                                !.name = currentProfileName.s,
                                !.path = currentProfilePath,
                                !.start = fs[currentProfilePath]]
    /\ UNCHANGED <<fs, parents, detached, hist, arg, result, watcher>>

\* The awaited removeInheritedSettingsFromFile reads the file
RemoveRead ==
    /\ run.op = "remove" /\ run.pc = "removeRead"
    /\ run' = IF fs[run.path] = Missing THEN [run EXCEPT !.pc = "failed"]
              ELSE IF ~HasRemovableBlock(fs[run.path])
              THEN [run EXCEPT !.pc = "done"]
              ELSE [run EXCEPT !.pc = "removeWrite",
                               !.raw = CleanedText(fs[run.path])]
    /\ UNCHANGED <<fs, parents, detached, commands, hist, arg, result, watcher>>

\* The awaited removeInheritedSettingsFromFile writes the cleaned file
RemoveWrite ==
    /\ run.op = "remove" /\ run.pc = "removeWrite"
    /\ fs' = [fs EXCEPT ![run.path] = run.raw]
    /\ run' = [run EXCEPT !.pc = "done"]
    /\ UNCHANGED <<parents, detached, commands, hist, arg, result, watcher>>

\* A removeInheritedSettingsFromFile call nobody awaits reads the file; it ends
\* there when the read fails or no block is found
DetachedRead ==
    /\ \E t \in 1 .. Len(detached) :
        /\ detached[t].pc = "read"
        /\ LET raw == fs[detached[t].path]
           IN  detached' =
                   IF raw = Missing \/ ~HasRemovableBlock(raw)
                   THEN DropTask(detached, t)
                   ELSE [detached EXCEPT ![t] =
                            RemoveTask("write", detached[t].path,
                                       CleanedText(raw))]
    /\ UNCHANGED <<fs, parents, run, commands, hist, arg, result, watcher>>

\* A removeInheritedSettingsFromFile call nobody awaits writes the cleaned file
DetachedWrite ==
    /\ \E t \in 1 .. Len(detached) :
        /\ detached[t].pc = "write"
        /\ fs' = [fs EXCEPT ![detached[t].path] = detached[t].cleaned]
        /\ detached' = DropTask(detached, t)
    /\ UNCHANGED <<parents, run, commands, hist, arg, result, watcher>>

\* The command's promise settles and the command handler returns
Return ==
    /\ run.pc \in {"done", "failed"}
    /\ hist' = Append(hist,
                 [op |-> run.op, outcome |-> run.pc, start |-> run.start,
                  inherited |-> run.inherited,
                  text |-> IF run.path = <<>> THEN <<>> ELSE fs[run.path]])
    /\ run' = IdleRun
    /\ UNCHANGED <<fs, parents, detached, commands, arg, result, watcher>>

(***************************************************************************)
(* The initial files                                                       *)
(***************************************************************************)

K_a == <<"a">>
K_b == <<"b">>
K_ab == <<"a", ".", "b">>

LitTrue == Lit(<<"t", "r", "u", "e">>)

\* One entry of the profiles submenu; the checked entry is the active profile
MenuItem(location, checked) ==
    Obj(<<Entry(S_id, Str(S_entryPrefix \o location))>>
        \o (IF checked THEN <<Entry(S_checked, LitTrue)>> ELSE <<>>))

\* A storage.json with the custom profile Work, and the profile at
\* checkedLocation checked in the profiles submenu
StorageValue(checkedLocation) ==
    Obj(<<Entry(S_userDataProfiles,
                Arr(<<Obj(<<Entry(S_location, Str(S_workLocation)),
                            Entry(S_name, Str(S_Work))>>)>>)),
          Entry(<<"m", "e", "n", "u">>,
                Obj(<<Entry(S_items,
                    Arr(<<Obj(<<Entry(S_id, Str(S_submenuitemProfiles)),
                                Entry(S_submenu,
                                    Obj(<<Entry(S_items,
                                        Arr(<<MenuItem(S_defaultLocation,
                                                  checkedLocation = S_defaultLocation),
                                              MenuItem(S_workLocation,
                                                  checkedLocation = S_workLocation)>>))>>))>>)>>))>>))>>)

\* A settings.json as a user writes it: one entry per line, indented by tab,
\* optionally a trailing comma and a line comment after the last entry, and
\* tail after the closing brace
UserDocument(entries, tab, comma, comment, tail) ==
    <<"{", "\n">>
    \o JoinWith([i \in 1 .. Len(entries) |->
                    tab \o <<"\"">> \o entries[i].k \o <<"\"", ":", " ">>
                        \o JsonStringify(entries[i].v)],
                <<",", "\n">>)
    \o (IF comma /\ entries # <<>> THEN <<",">> ELSE <<>>)
    \o (IF comment THEN <<" ", "/", "/", " ", "c">> ELSE <<>>)
    \o (IF entries # <<>> \/ comment THEN <<"\n">> ELSE <<>>)
    \o <<"}">> \o tail

FourSpaces == <<" ", " ", " ", " ">>
TwoSpaces == <<" ", " ">>

\* What the active profile's settings.json holds at the start
ActiveTrees ==
    { <<>>,
      <<Entry(K_a, Num(1))>>,
      <<Entry(K_a, Num(1)), Entry(K_b, Num(2))>>,
      <<Entry(K_a, Obj(<<Entry(K_b, Num(1))>>))>> }

\* A settings.json that holds a block an earlier run wrote, for parents that
\* have changed since
StaleDocument ==
    InsertBlock(UserDocument(<<Entry(K_a, Num(1)), Entry(K_b, Num(2))>>,
                             FourSpaces, FALSE, FALSE, <<"\n">>),
                <<Entry(<<"z">>, Num(0))>>)

\* text with the first occurrence of marker cut out
CutMarker(text, marker) ==
    Slice(text, 0, IndexOf(text, marker))
    \o SliceFrom(text, IndexOf(text, marker) + Len(marker))

\* Documents whose markers a user has damaged: the end marker deleted, the
\* start marker deleted, and the two markers interchanged
StartMarkerOnly == CutMarker(StaleDocument, INHERITED_SETTINGS_END_MARKER)
EndMarkerOnly == CutMarker(StaleDocument, INHERITED_SETTINGS_START_MARKER)
MarkersSwapped ==
    LET startIndex == IndexOf(StaleDocument, INHERITED_SETTINGS_START_MARKER)
        endIndex == IndexOf(StaleDocument, INHERITED_SETTINGS_END_MARKER)
    IN  Slice(StaleDocument, 0, startIndex)
        \o INHERITED_SETTINGS_END_MARKER
        \o Slice(StaleDocument,
                 startIndex + Len(INHERITED_SETTINGS_START_MARKER), endIndex)
        \o INHERITED_SETTINGS_START_MARKER
        \o SliceFrom(StaleDocument,
                     endIndex + Len(INHERITED_SETTINGS_END_MARKER))

DamagedDocuments == {StartMarkerOnly, EndMarkerOnly, MarkersSwapped}

ActiveDocuments ==
    {UserDocument(tree, FourSpaces, FALSE, FALSE, <<"\n">>) : tree \in ActiveTrees}
    \cup {UserDocument(tree, TwoSpaces, TRUE, TRUE, <<>>) : tree \in ActiveTrees}
    \cup {StaleDocument}
    \cup DamagedDocuments

\* What the Default profile's settings.json holds
ParentTrees ==
    { <<Entry(K_b, Num(6))>>,
      <<Entry(K_a, Num(5)), Entry(K_b, Str(<<"x">>))>>,
      <<Entry(K_a, Num(5)), Entry(K_ab, Num(7))>> }

ParentDocuments ==
    {UserDocument(tree, FourSpaces, FALSE, FALSE, <<"\n">>) : tree \in ParentTrees}

ParentLists == { <<>>, <<S_Default>>, <<<<"N", "o", "n", "e">>, S_Default>> }

\* A profile's settings.json as the commands find it: written, or not there
ActiveFiles == ActiveDocuments \cup {Missing}
ParentFiles == ParentDocuments \cup {Missing}

Init ==
    /\ \E active \in ActiveFiles, parent \in ParentFiles :
          fs = (GlobalStoragePath :> JsonStringify(StorageValue(S_workLocation)))
               @@ (SettingsPath(UserDirectory) :> parent)
               @@ (SettingsPath(WorkDirectory) :> active)
    /\ parents \in ParentLists
    /\ run = IdleRun
    /\ detached = <<>>
    /\ commands = 0
    /\ hist = <<>>
    /\ arg = <<>>
    /\ result = <<>>
    /\ watcher = NoWatcher

Next ==
    \/ StartApply
    \/ ApplyReadOwn
    \/ ApplyReadParent
    \/ ApplyDiff
    \/ ApplyInsertRead
    \/ ApplyInsertWrite
    \/ StartRemove
    \/ RemoveRead
    \/ RemoveWrite
    \/ DetachedRead
    \/ DetachedWrite
    \/ Return

Spec == Init /\ [][Next]_vars

(***************************************************************************)
(* What the properties speak of                                            *)
(***************************************************************************)

\* The settings.json of the active profile
ActivePath == SettingsPath(WorkDirectory)

\* How often marker occurs in text
CountOf(text, marker) ==
    Cardinality({i \in 0 .. Len(text) - Len(marker) :
                    Slice(text, i, i + Len(marker)) = marker})

NoMarkers(text) ==
    /\ CountOf(text, INHERITED_SETTINGS_START_MARKER) = 0
    /\ CountOf(text, INHERITED_SETTINGS_END_MARKER) = 0

\* The text outside the managed block, and the text between its markers
Outside(text) ==
    IF ~HasRemovableBlock(text) THEN text
    ELSE Slice(text, 0, IndexOf(text, INHERITED_SETTINGS_START_MARKER))
         \o SliceFrom(text, IndexOf(text, INHERITED_SETTINGS_END_MARKER)
                            + Len(INHERITED_SETTINGS_END_MARKER))

Inside(text) ==
    IF ~HasRemovableBlock(text) THEN <<>>
    ELSE Slice(text, IndexOf(text, INHERITED_SETTINGS_START_MARKER)
                     + Len(INHERITED_SETTINGS_START_MARKER),
               IndexOf(text, INHERITED_SETTINGS_END_MARKER))

EntrySet(object) == {object[i] : i \in 1 .. Len(object)}

\* The entries rendered inside the managed block
BlockEntries(text) == EntrySet(ParseJsonc(<<"{">> \o Inside(text) \o <<"}">>).o)

\* The flattened settings written outside the managed block
OwnOverlay(text) == Flatten(ParseJsonc(Outside(text)))

\* The merged overlay of the configured parents, from the files as they are
MergedParents ==
    GetProfileSettings(GetProfileMap(ReadJSON(fs[GlobalStoragePath]),
                                     UserDirectory),
                       JsonOf(fs), parents)

\* The text without whitespace, and without whitespace and commas
NonWhitespace(text) == SelectSeq(text, LAMBDA c : ~IsWhitespace(c))
Content(text) == SelectSeq(text, LAMBDA c : ~IsWhitespace(c) /\ c # ",")

\* No command is running and no file operation is pending
Quiescent == run.op = "none" /\ detached = <<>>

ReturnedApply(h) == h.op = "apply" /\ h.outcome = "done"

\* C1: applying twice in a row leaves settings.json as the first run left it:
\* when two apply commands have run one after the other, the second starting
\* on the file the first returned with, the file ends up byte-identical to its
\* content after the first run.
C1_ApplyTwiceIdentical ==
    (/\ Quiescent
     /\ Len(hist) = 2
     /\ ReturnedApply(hist[1]) /\ ReturnedApply(hist[2])
     /\ hist[2].start = hist[1].text)
    => fs[ActivePath] = hist[1].text

\* C2: at most one managed block per file: in every state, under every
\* interleaving of the reads and writes, settings.json holds at most one start
\* marker and at most one end marker.
C2_AtMostOneBlock ==
    /\ CountOf(fs[ActivePath], INHERITED_SETTINGS_START_MARKER) <= 1
    /\ CountOf(fs[ActivePath], INHERITED_SETTINGS_END_MARKER) <= 1

\* C5: own settings take priority: once an apply run has returned and every
\* file operation has ended, no key rendered inside the managed block is a key
\* of the flattened settings written outside the block.
C5_OwnKeysNotInherited ==
    (Quiescent /\ hist # <<>> /\ ReturnedApply(hist[Len(hist)]))
    => {e.k : e \in BlockEntries(fs[ActivePath])}
           \cap KeySet(OwnOverlay(fs[ActivePath])) = {}

\* C8: end-to-end content: once an apply run that started on a block-free
\* settings.json has returned and every file operation has ended, the file
\* holds what it held before plus one managed block whose entries are exactly
\* the merged parents' entries whose key the own overlay lacks, and nothing
\* else (no block when there is no such entry).
C8_EndToEndContent ==
    (/\ Quiescent /\ hist # <<>>
     /\ ReturnedApply(hist[Len(hist)])
     /\ NoMarkers(hist[Len(hist)].start))
    => LET start == hist[Len(hist)].start
           text == fs[ActivePath]
           own == Flatten(ParseJsonc(start))
           expected == {e \in EntrySet(MergedParents) : e.k \notin KeySet(own)}
       IN  IF expected = {} THEN text = start
           ELSE /\ CountOf(text, INHERITED_SETTINGS_START_MARKER) = 1
                /\ CountOf(text, INHERITED_SETTINGS_END_MARKER) = 1
                /\ BlockEntries(text) = expected
                /\ Content(Outside(text)) = Content(start)

\* C9: when the settings written outside the block already define every key
\* the parents contribute, then once the apply run has finished settings.json
\* contains neither marker.
C9_NoBlockWhenAllDefined ==
    \A n \in 1 .. Len(hist) :
        (/\ ReturnedApply(hist[n])
         /\ KeySet(MergedParents) \subseteq KeySet(OwnOverlay(hist[n].start)))
        => NoMarkers(hist[n].text)

(***************************************************************************)
(* The block splicer applied on its own to documents of many shapes        *)
(***************************************************************************)

\* writeInheritedSettings as a function of the raw file: what the file holds
\* afterwards
WriteInheritedSettings(raw, flattened) ==
    IF Len(flattened) = 0 THEN raw ELSE InsertBlock(raw, flattened)

\* How many splicer calls one behaviour chains
MaxSteps == 3

OneTab == <<"\t">>

TextTrees ==
    { <<>>,
      <<Entry(K_a, Num(1))>>,
      <<Entry(K_a, Num(1)), Entry(K_b, Str(<<"x", ",">>))>> }

\* The documents a user writes: with and without a trailing comma, a comment
\* after the last entry, and text after the closing brace
WrittenDocuments ==
    {UserDocument(tree, tab, comma, comment, tail) :
        tree \in TextTrees, tab \in {TwoSpaces, OneTab},
        comma \in BOOLEAN, comment \in BOOLEAN,
        tail \in {<<>>, <<"\n">>, <<" ", "/", "/", " ", "e", "o", "f">>}}

\* An empty file, a file cut off before its closing brace, a file whose last
\* string ends in an escaped backslash, and a file with a closing brace in a
\* comment after its object
EmptyDocument == <<>>
TruncatedDocument ==
    <<"{", "\n", " ", " ", "\"", "a", "\"", ":", " ", "1", " ", "/", "/", " ", "c", "\n">>
BackslashDocument ==
    <<"{", "\n", " ", " ", "\"", "p", "\"", ":", " ", "\"", "c", ":", "\\", "\\", "\"", " ", "/", "/", " ", "c", "\n", "}", "\n">>

BraceCommentDocument ==
    <<"{", "\n", " ", " ", "\"", "a", "\"", ":", " ", "1", "\n", "}", "\n",
      "/", "/", " ", "}", " ", "e", "o", "f", "\n">>

TextDocuments ==
    WrittenDocuments
        \cup {EmptyDocument, TruncatedDocument, BackslashDocument,
              BraceCommentDocument}

TextOverlays ==
    { <<>>,
      <<Entry(K_b, Num(6))>>,
      <<Entry(K_a, Num(5)), Entry(K_ab, Str(<<"x">>))>> }

\* The commands' variables, at rest while the functions are applied on their own
ProgramAtRest ==
    /\ watcher = NoWatcher
    /\ fs = <<>>
    /\ parents = <<>>
    /\ run = IdleRun
    /\ detached = <<>>
    /\ commands = 0
    /\ hist = <<>>

InitText ==
    /\ ProgramAtRest
    /\ arg \in [raw : TextDocuments, flattened : TextOverlays]
    /\ result = [ops |-> <<>>, texts |-> <<arg.raw>>]

\* removeInheritedSettingsFromFile on the document as it stands
SpliceRemove ==
    /\ Len(result.ops) < MaxSteps
    /\ result' = [ops |-> Append(result.ops, "remove"),
                  texts |-> Append(result.texts,
                                RemoveBlock(result.texts[Len(result.texts)]))]
    /\ UNCHANGED <<program, arg, watcher>>

\* writeInheritedSettings on the document as it stands
SpliceInsert ==
    /\ Len(result.ops) < MaxSteps
    /\ result' = [ops |-> Append(result.ops, "insert"),
                  texts |-> Append(result.texts,
                                WriteInheritedSettings(
                                    result.texts[Len(result.texts)],
                                    arg.flattened))]
    /\ UNCHANGED <<program, arg, watcher>>

NextText ==
    \/ SpliceRemove
    \/ SpliceInsert

SpecText == InitText /\ [][NextText]_vars

RoundTrip == <<"remove", "insert", "remove">>

LastNonWhitespace(text) ==
    LET kept == NonWhitespace(text)
    IN  IF kept = <<>> THEN "" ELSE kept[Len(kept)]

\* A document whose closing brace is its last non-whitespace character and
\* which holds no marker and no backslash
ClosedDocument(text) ==
    /\ NoMarkers(text)
    /\ LastNonWhitespace(text) = "}"
    /\ \A i \in 1 .. Len(text) : text[i] # "\\"

\* text with its i-th character left out
Without(text, i) == SubSeq(text, 1, i - 1) \o SubSeq(text, i + 1, Len(text))

HasClosingBrace(text) == \E i \in 1 .. Len(text) : text[i] = "}"

\* Whether the characters of s from its i-th on occur in t from its j-th on,
\* in the same order
RECURSIVE OccursInOrder(_, _, _, _)
OccursInOrder(s, i, t, j) ==
    IF i > Len(s) THEN TRUE
    ELSE IF j > Len(t) THEN FALSE
    ELSE IF s[i] = t[j] THEN OccursInOrder(s, i + 1, t, j + 1)
    ELSE OccursInOrder(s, i, t, j + 1)

MaxParents == 2

K_empty == <<>>
K_toString == <<"t", "o", "S", "t", "r", "i", "n", "g">>
S_None == <<"N", "o", "n", "e">>

\* Settings trees: flat and nested, with keys that hold a dot, an empty key,
\* and a key every object inherits from Object.prototype
OverlayTrees ==
    { <<>>,
      <<Entry(K_a, Num(1))>>,
      <<Entry(K_a, Num(2)), Entry(K_b, Str(<<"x">>))>>,
      <<Entry(K_a, Obj(<<Entry(K_b, Num(1))>>)), Entry(K_b, Num(2))>>,
      <<Entry(K_a, Obj(<<Entry(K_a, Obj(<<Entry(K_b, Arr(<<Num(1)>>))>>)),
                         Entry(K_b, Lit(<<"n", "u", "l", "l">>))>>)),
        Entry(K_b, Obj(<<>>))>>,
      <<Entry(K_ab, Num(1)), Entry(K_a, Obj(<<Entry(K_b, Num(2))>>))>>,
      <<Entry(K_a, Num(1)), Entry(K_ab, Num(2))>>,
      <<Entry(K_empty, Obj(<<Entry(K_a, Num(1))>>)), Entry(K_a, Num(2))>>,
      <<Entry(K_toString, Num(1)), Entry(K_b, Arr(<<Num(1), Num(2)>>))>> }

\* The parent lists of at most n names: profiles that exist and one that
\* does not
RECURSIVE ParentListsUpTo(_)
ParentListsUpTo(n) ==
    IF n = 0 THEN {<<>>}
    ELSE LET shorter == ParentListsUpTo(n - 1)
         IN  shorter \cup {Append(list, name) :
                              list \in shorter,
                              name \in {S_Default, S_Work, S_None}}

\* What readJSON returns for the two profiles' settings.json
OverlayJson ==
    (SettingsPath(UserDirectory) :> Obj(arg.default))
    @@ (SettingsPath(WorkDirectory) :> Obj(arg.work))

OverlayProfileMap == GetProfileMap(StorageValue(S_workLocation), UserDirectory)

InitOverlay ==
    /\ ProgramAtRest
    /\ arg \in [default : OverlayTrees, work : OverlayTrees,
                profiles : ParentListsUpTo(MaxParents)]
    /\ result = [op |-> "none", overlay |-> <<>>]

\* flattenSettings of the Work profile's tree
OverlayFlatten ==
    /\ result.op = "none"
    /\ result' = [op |-> "flatten", overlay |-> Flatten(Obj(arg.work))]
    /\ UNCHANGED <<program, arg, watcher>>

\* getProfileSettings of the listed profiles
OverlayMerge ==
    /\ result.op = "none"
    /\ result' = [op |-> "merge",
                  overlay |-> GetProfileSettings(OverlayProfileMap, OverlayJson,
                                                 arg.profiles)]
    /\ UNCHANGED <<program, arg, watcher>>

\* subtractSettings of the Work profile's overlay from the Default profile's
OverlayDiff ==
    /\ result.op = "none"
    /\ result' = [op |-> "diff",
                  overlay |-> SubtractSettings(Flatten(Obj(arg.default)),
                                               Flatten(Obj(arg.work)))]
    /\ UNCHANGED <<program, arg, watcher>>

NextOverlay ==
    \/ OverlayFlatten
    \/ OverlayMerge
    \/ OverlayDiff

SpecOverlay == InitOverlay /\ [][NextOverlay]_vars

\* The positions of the listed profiles that exist
KnownParents ==
    {i \in 1 .. Len(arg.profiles) : HasOwn(OverlayProfileMap, arg.profiles[i])}

\* The flattened settings of the profile at position i of the list
ParentOverlay(i) ==
    Flatten(OverlayJson[SettingsPath(Get(OverlayProfileMap, arg.profiles[i]))])

\* C6: merge order: the merged overlay holds exactly the union of the listed
\* profiles' flattened keys, and maps each key to the value of the last
\* profile in the list that defines it.
C6_MergeLastWins ==
    result.op = "merge"
    => /\ KeySet(result.overlay)
              = UNION {KeySet(ParentOverlay(i)) : i \in KnownParents}
       /\ \A key \in KeySet(result.overlay) :
              LET last == MaxOf({i \in KnownParents :
                                    key \in KeySet(ParentOverlay(i))})
              IN  Get(result.overlay, key) = Get(ParentOverlay(last), key)

\* Two profiles that give one key different values were merged, either way
\* round
C6_Witness ==
    /\ result.op = "merge"
    /\ Len(arg.profiles) = 2
    /\ KnownParents = {1, 2}
    /\ arg.profiles[1] # arg.profiles[2]
    /\ \E key \in KeySet(ParentOverlay(1)) \cap KeySet(ParentOverlay(2)) :
           /\ Get(ParentOverlay(1), key) # Get(ParentOverlay(2), key)
           /\ Get(result.overlay, key) = Get(ParentOverlay(2), key)

\* C7: diff is by key presence only: the diff holds exactly the entries of the
\* parent overlay whose key is not a key of the own overlay, each with the
\* parent's value; no parent key the own overlay lacks is dropped.
C7_DiffByOwnKeys ==
    result.op = "diff"
    => LET parentOverlay == Flatten(Obj(arg.default))
           ownOverlay == Flatten(Obj(arg.work))
       IN  EntrySet(result.overlay)
               = {e \in EntrySet(parentOverlay) : e.k \notin KeySet(ownOverlay)}

\* The leaf values of a tree: its scalars and arrays
RECURSIVE LeafCount(_)
LeafCount(tree) ==
    IF tree = <<>> THEN 0
    ELSE (IF Head(tree).v.t = "obj" THEN LeafCount(Head(tree).v.o) ELSE 1)
         + LeafCount(Tail(tree))

\* key names a setting above the one other names
PathPrefix(key, other) ==
    /\ Len(key) < Len(other)
    /\ SubSeq(other, 1, Len(key) + 1) = key \o <<".">>

NoKeyAbove(overlay) ==
    \A key \in KeySet(overlay), other \in KeySet(overlay) :
        ~PathPrefix(key, other)

\* C10 as stated: for any tree, trees whose keys hold a dot included, flatten
\* yields as many keys as the tree has leaf values, and no result key is a
\* prefix, along the dotted path, of another.
C10_FlattenCountsLeaves ==
    result.op = "flatten"
    => /\ Len(result.overlay) = LeafCount(arg.work)
       /\ NoKeyAbove(result.overlay)

\* Every key of the tree, at every depth, is non-empty and holds no dot
RECURSIVE PlainKeys(_)
PlainKeys(tree) ==
    \A n \in 1 .. Len(tree) :
        /\ tree[n].k # <<>>
        /\ \A c \in 1 .. Len(tree[n].k) : tree[n].k[c] # "."
        /\ tree[n].v.t = "obj" => PlainKeys(tree[n].v.o)

\* C10 as amended: for any tree whose keys are non-empty and hold no dot,
\* flatten yields as many keys as the tree has leaf values, and no result key
\* is a prefix, along the dotted path, of another.
C10_FlattenCountsLeavesOfPlainKeys ==
    (result.op = "flatten" /\ PlainKeys(arg.work))
    => /\ Len(result.overlay) = LeafCount(arg.work)
       /\ NoKeyAbove(result.overlay)

\* A tree of plain keys nested two deep was flattened
C10_Witness ==
    /\ result.op = "flatten"
    /\ PlainKeys(arg.work)
    /\ Len(result.overlay) = 2
    /\ \E n \in 1 .. Len(arg.work) :
           /\ arg.work[n].v.t = "obj"
           /\ \E m \in 1 .. Len(arg.work[n].v.o) : arg.work[n].v.o[m].v.t = "obj"

UniqueKeys(overlay) == Cardinality(KeySet(overlay)) = Len(overlay)

C11_NoWriteAfterReturn ==
    [][(\E p \in DOMAIN fs : fs'[p] # fs[p]) => run.op # "none"]_vars

\* C12: a missing settings.json is no error: a command that found the active
\* profile's settings.json missing returns without a failure, and a run all of
\* whose known parents have no settings.json inherits no key.
C12_MissingFileIsEmpty ==
    \A n \in 1 .. Len(hist) :
        /\ hist[n].start = Missing => hist[n].outcome = "done"
        /\ (hist[n].op = "apply" /\ hist[n].outcome = "done"
               /\ fs[SettingsPath(UserDirectory)] = Missing)
           => hist[n].inherited = <<>>

\* C17: the steps of a run happen in order; in particular the removal of the
\* old block has ended, its write included, by the time writeInheritedSettings
\* has read the file.
C17_RemoveEndsBeforeInsertReads ==
    (run.op = "apply" /\ run.pc = "insertWrite") => detached = <<>>

\* C18: the own overlay an apply run uses for the diff holds no key that the
\* file it started on has only inside its managed block.
C18_OwnOverlayWithoutBlock ==
    (run.op = "apply" /\ run.pc \in {"parents", "insertRead", "insertWrite", "done"})
    => KeySet(run.own) \subseteq KeySet(OwnOverlay(run.start))

\* The texts a removeInheritedSettingsFromFile call is about to write
CleanedTexts ==
    {detached[t].cleaned : t \in {u \in 1 .. Len(detached) : detached[u].pc = "write"}}
    \cup (IF run.op = "remove" /\ run.pc = "removeWrite" THEN {run.raw} ELSE {})

\* C20: the document removeInheritedSettingsFromFile writes holds neither
\* marker, has no comma left before its closing brace, and has a closing brace
\* as its last character that is not whitespace.
C20_WrittenWithoutBlock ==
    \A cleaned \in CleanedTexts :
        /\ NoMarkers(cleaned)
        /\ LastNonWhitespace(cleaned) = "}"
        /\ LET kept == NonWhitespace(cleaned)
           IN  Len(kept) >= 2 => kept[Len(kept) - 1] # ","

\* Whether a marker is missing from text, or the end marker precedes the start
\* marker
MarkersDamaged(text) ==
    \/ CountOf(text, INHERITED_SETTINGS_START_MARKER) = 0
    \/ CountOf(text, INHERITED_SETTINGS_END_MARKER) = 0
    \/ MinOf({i \in 0 .. Len(text) :
                Slice(text, i, i + Len(INHERITED_SETTINGS_END_MARKER))
                    = INHERITED_SETTINGS_END_MARKER})
       < MinOf({i \in 0 .. Len(text) :
                Slice(text, i, i + Len(INHERITED_SETTINGS_START_MARKER))
                    = INHERITED_SETTINGS_START_MARKER})

\* C19: removeInheritedSettingsFromFile leaves the file alone when a marker is
\* missing or the end marker precedes the start marker: a call that reads such
\* a file, awaited or not, never goes on to write.
C19_DamagedMarkersUntouched ==
    [][/\ (run.op = "remove" /\ run.pc = "removeRead"
              /\ MarkersDamaged(fs[run.path]))
          => run'.pc # "removeWrite"
       /\ \A t \in 1 .. Len(detached) :
            (detached[t].pc = "read" /\ MarkersDamaged(fs[detached[t].path]))
            => ~(Len(detached') = Len(detached) /\ detached'[t].pc = "write")
      ]_vars

\* A remove command that found a file with damaged markers and returned with
\* the file as it was
C19_Witness ==
    \E n \in 1 .. Len(hist) :
        /\ hist[n].op = "remove" /\ hist[n].outcome = "done"
        /\ hist[n].start \in DamagedDocuments
        /\ hist[n].text = hist[n].start

\* ---------------------------------------------------------------------------
\* The store readers on their own: getProfileMap and getCurrentProfileName
\* applied to one storage.json

\* The entries of userDataProfiles one store holds
MaxProfiles == 2

S_Home == <<"H", "o", "m", "e">>
S_homeLocation == <<"h">>

\* A field of a userDataProfiles entry: absent, empty, or one of values
StoreFields(key, values) ==
    {<<>>} \cup {<<Entry(key, Str(value))>> : value \in values \cup {<<>>}}

\* The entries of userDataProfiles: custom profiles, one of them named as the
\* default profile is, and entries short of a name or a location
StoreEntries ==
    {Obj(location \o name) :
        location \in StoreFields(S_location, {S_workLocation, S_homeLocation}),
        name \in StoreFields(S_name, {S_Work, S_Home, S_Default})}

RECURSIVE StoreListsUpTo(_)
StoreListsUpTo(n) ==
    IF n = 0 THEN {<<>>}
    ELSE LET shorter == StoreListsUpTo(n - 1)
         IN  shorter \cup {Append(list, entry) :
                              list \in {l \in shorter : Len(l) = n - 1},
                              entry \in StoreEntries}

\* storage.json with the given userDataProfiles and the profiles submenu of
\* StorageValue
StoreValue(entries, checkedLocation) ==
    Obj(<<Entry(S_userDataProfiles, Arr(entries))>>
        \o Tail(StorageValue(checkedLocation).o))

\* A storage.json that cannot be read, and ones that hold no JSON value: an
\* empty file, a file of zero bytes written over, a file of other content
UnreadableStores ==
    {Missing, <<>>, <<"\n">>, <<"?">>, <<"n", "o", "n", "e">>}

\* storage.json as the readers find it: written by the editor, holding no
\* profile data at all, unparsable, or not there
StoreFiles ==
    {[entries |-> entries, readable |-> TRUE,
      store |-> JsonStringify(StoreValue(entries, checkedLocation))] :
        entries \in StoreListsUpTo(MaxProfiles),
        checkedLocation \in {S_defaultLocation, S_workLocation, S_homeLocation}}
    \cup {[entries |-> <<>>, readable |-> TRUE, store |-> <<"{", "}">>]}
    \cup {[entries |-> <<>>, readable |-> FALSE, store |-> store] :
             store \in UnreadableStores}

\* What a reader returned, or the call that threw
StoreResult(op, profiles, map, name, threw) ==
    [op |-> op, profiles |-> profiles, map |-> map, name |-> name,
     threw |-> threw]

InitStore ==
    /\ ProgramAtRest
    /\ arg \in StoreFiles
    /\ result = StoreResult("none", <<>>, <<>>, Undefined, "")

\* getCustomProfiles on the store
StoreCustomProfiles ==
    /\ result.op = "none"
    /\ LET storage == ReadJSON(arg.store)
       IN  result' =
             IF GetCustomProfilesThrows(storage)
             THEN StoreResult("failed", <<>>, <<>>, Undefined, "getCustomProfiles")
             ELSE StoreResult("profiles", GetCustomProfiles(storage), <<>>,
                              Undefined, "")
    /\ UNCHANGED <<program, arg, watcher>>

\* getProfileMap on the store
StoreProfileMap ==
    /\ result.op = "none"
    /\ LET storage == ReadJSON(arg.store)
       IN  result' =
             IF GetCustomProfilesThrows(storage)
             THEN StoreResult("failed", <<>>, <<>>, Undefined, "getProfileMap")
             ELSE StoreResult("map", <<>>,
                              GetProfileMap(storage, UserDirectory), Undefined, "")
    /\ UNCHANGED <<program, arg, watcher>>

\* getCurrentProfileName on the store
StoreCurrentProfileName ==
    /\ result.op = "none"
    /\ result' = StoreResult("name", <<>>, <<>>,
                             GetCurrentProfileName(ReadJSON(arg.store)), "")
    /\ UNCHANGED <<program, arg, watcher>>

\* The first lines of applyInheritedSettings and of
\* removeCurrentProfileInheritedSettings: the current profile's name, the
\* profile map and profiles[currentProfileName], which path.join takes; it
\* throws a TypeError when that is undefined
StoreProfileDirectory ==
    /\ result.op = "none"
    /\ LET storage == ReadJSON(arg.store)
           currentProfileName == GetCurrentProfileName(storage)
           profiles == GetProfileMap(storage, UserDirectory)
       IN  result' =
             IF GetCustomProfilesThrows(storage)
             THEN StoreResult("failed", <<>>, <<>>, currentProfileName,
                              "getProfileMap")
             ELSE StoreResult("directory", <<>>, profiles, currentProfileName,
                      IF currentProfileName.t = "str"
                         /\ HasOwn(profiles, currentProfileName.s)
                      THEN "" ELSE "path.join")
    /\ UNCHANGED <<program, arg, watcher>>

NextStore ==
    \/ StoreCustomProfiles
    \/ StoreProfileMap
    \/ StoreCurrentProfileName
    \/ StoreProfileDirectory

SpecStore == InitStore /\ [][NextStore]_vars

\* Whether a userDataProfiles entry has both a name and a location
Complete(entry) ==
    /\ HasOwn(entry.o, S_name) /\ Get(entry.o, S_name).s # <<>>
    /\ HasOwn(entry.o, S_location) /\ Get(entry.o, S_location).s # <<>>

\* C13: the profile map holds Default with the user directory, every custom
\* profile that has a name and a location (the last entry of each name) with
\* <user directory>/profiles/<location>, and nothing else.
C13_ProfileMapOfStore ==
    result.op = "map" =>
        LET entries == arg.entries
            complete == {i \in 1 .. Len(entries) : Complete(entries[i])}
            NameOf(i) == Get(entries[i].o, S_name).s
            LocationOf(i) == Get(entries[i].o, S_location).s
        IN  /\ HasOwn(result.map, S_Default)
            /\ Get(result.map, S_Default) = UserDirectory
            /\ \A i \in complete :
                 (\A j \in complete : j > i => NameOf(j) # NameOf(i))
                 => /\ HasOwn(result.map, NameOf(i))
                    /\ Get(result.map, NameOf(i))
                         = UserDirectory \o <<"/">> \o S_profiles
                             \o <<"/">> \o LocationOf(i)
            /\ KeySet(result.map)
                 \subseteq {S_Default} \cup {NameOf(i) : i \in complete}

\* ---------------------------------------------------------------------------
\* The scanners on their own: removeTrailingComma and
\* getLastMeaningfulCharacterIndex applied to one text

\* The lexemes one text is made of
MaxLexemes == 4

\* Pieces of JSONC text: punctuation, a letter, a line break, a quote on its
\* own (a string that is opened or closed), a string that holds one escaped
\* backslash, the start of a line comment and a whole block comment
Lexemes ==
    { <<"}">>, <<",">>, <<"a">>, <<"\n">>, <<"\"">>,
      <<"\"", "\\", "\\", "\"">>,
      <<"/", "/">>,
      <<"/", "*", "*", "/">> }

\* The texts of up to n lexemes: complete documents and partial ones
RECURSIVE ScannerTextsUpTo(_)
ScannerTextsUpTo(n) ==
    IF n = 0 THEN {<<>>}
    ELSE LET shorter == ScannerTextsUpTo(n - 1)
         IN  shorter \cup {text \o lexeme : text \in shorter, lexeme \in Lexemes}

InitScanner ==
    /\ ProgramAtRest
    /\ arg \in [text : ScannerTextsUpTo(MaxLexemes)]
    /\ result = [op |-> "none", text |-> <<>>, index |-> -1]

\* removeTrailingComma on the text
ScanRemoveTrailingComma ==
    /\ result.op = "none"
    /\ result' = [op |-> "comma", text |-> RemoveTrailingComma(arg.text),
                  index |-> -1]
    /\ UNCHANGED <<program, arg, watcher>>

\* getLastMeaningfulCharacterIndex on the text
ScanLastMeaningful ==
    /\ result.op = "none"
    /\ result' = [op |-> "last", text |-> <<>>,
                  index |-> GetLastMeaningfulCharacterIndex(arg.text)]
    /\ UNCHANGED <<program, arg, watcher>>

NextScanner == ScanRemoveTrailingComma \/ ScanLastMeaningful

SpecScanner == InitScanner /\ [][NextScanner]_vars

\* What each character of a JSONC text belongs to: "code", "string" or
\* "comment". A string runs from its quote to the next quote that no
\* backslash escapes, or to the end of the line; a line comment runs to the
\* end of the line, a block comment to the next */. One turn for the
\* character at the 0-based index i: st.mode is where the scan is, st.two
\* whether this character goes with the one before it, st.class what the
\* characters before belong to.
LexTurn(text, st, i) ==
    LET char == CharAt(text, i)
        nextChar == CharAt(text, i + 1)
        To(class, mode, two) ==
            [mode |-> mode, two |-> two, class |-> Append(st.class, class)]
    IN  IF st.two
        THEN To(st.class[Len(st.class)], st.mode, FALSE)
        ELSE CASE st.mode = "code" ->
                IF char = "\"" THEN To("string", "string", FALSE)
                ELSE IF char = "/" /\ nextChar = "/" THEN To("comment", "line", TRUE)
                ELSE IF char = "/" /\ nextChar = "*" THEN To("comment", "block", TRUE)
                ELSE To("code", "code", FALSE)
          [] st.mode = "string" ->
                IF char \in {"\n", "\r"} THEN To("code", "code", FALSE)
                ELSE IF char = "\"" THEN To("string", "code", FALSE)
                ELSE IF char = "\\" /\ nextChar \notin {"\n", "\r", "undefined"}
                THEN To("string", "string", TRUE)
                ELSE To("string", "string", FALSE)
          [] st.mode = "line" ->
                IF char \in {"\n", "\r"} THEN To("code", "code", FALSE)
                ELSE To("comment", "line", FALSE)
          [] st.mode = "block" ->
                IF char = "*" /\ nextChar = "/" THEN To("comment", "code", TRUE)
                ELSE To("comment", "block", FALSE)

\* The turns lo .. hi - 1, in order
RECURSIVE LexLoop(_, _, _, _)
LexLoop(text, st, lo, hi) ==
    IF lo >= hi THEN st
    ELSE IF hi = lo + 1 THEN LexTurn(text, st, lo)
    ELSE LET mid == (lo + hi) \div 2
             half == LexLoop(text, st, lo, mid)
         IN  IF Len(half.class) >= 0 THEN LexLoop(text, half, mid, hi) ELSE half

Lex(text) ==
    LexLoop(text, [mode |-> "code", two |-> FALSE, class |-> <<>>],
            0, Len(text)).class

\* C14: removeTrailingComma never deletes a comma inside a string or a
\* comment: what it returns is the text, or the text without one comma that
\* stands outside every string and comment.
C14_CommaOutsideStringsAndComments ==
    result.op = "comma" =>
        \/ result.text = arg.text
        \/ \E i \in 1 .. Len(arg.text) :
             /\ arg.text[i] = ","
             /\ Lex(arg.text)[i] = "code"
             /\ result.text = Without(arg.text, i)

\* The 1-based indices of the characters of text that are neither whitespace
\* nor part of a comment
Meaningful(text) ==
    {i \in 1 .. Len(text) : Lex(text)[i] # "comment" /\ ~IsWhitespace(text[i])}

\* C15: when the closing brace is the last meaningful character of the text
\* and a comma the one before it, whatever comments lie between the two,
\* removeTrailingComma returns the text without that comma and with the
\* comments as they were.
C15_CommaBeforeBraceRemoved ==
    result.op = "comma" =>
        \A brace, comma \in Meaningful(arg.text) :
            (/\ \A i \in Meaningful(arg.text) : i <= brace
             /\ \A i \in Meaningful(arg.text) : i <= comma \/ i = brace
             /\ comma < brace
             /\ arg.text[brace] = "}" /\ Lex(arg.text)[brace] = "code"
             /\ arg.text[comma] = "," /\ Lex(arg.text)[comma] = "code")
            => result.text = Without(arg.text, comma)

\* ---------------------------------------------------------------------------
\* The profile-change watcher: store-change events, the handlers they start
\* and the apply runs the handlers start

\* The store-change events of one behaviour
MaxEvents == 3

\* storage.json as an event leaves it: Default or Work checked, or deleted
StoreContents ==
    {JsonStringify(StorageValue(checkedLocation)) :
        checkedLocation \in {S_defaultLocation, S_workLocation}}
    \cup {Missing}

\* getCurrentProfileName on storage.json as it is in files
ProfileNameIn(files) ==
    GetCurrentProfileName(ReadJSON(files[GlobalStoragePath])).s

\* The onChange calls a file event at path starts: the watcher is created for
\* globalStoragePath alone
Notify(path) ==
    IF path = GlobalStoragePath THEN <<[pc |-> "read", name |-> <<>>]>>
    ELSE <<>>

\* updateInheritedSettingsOnProfileChange has run: currentProfile holds the
\* name it resolved, nothing is in flight
InitWatcher ==
    /\ \E store \in StoreContents,
          active \in {UserDocument(<<>>, FourSpaces, FALSE, FALSE, <<"\n">>),
                      StaleDocument} :
          fs = (GlobalStoragePath :> store)
               @@ (SettingsPath(UserDirectory)
                     :> UserDocument(<<Entry(K_b, Num(6))>>, FourSpaces,
                                     FALSE, FALSE, <<"\n">>))
               @@ (SettingsPath(WorkDirectory) :> active)
    /\ parents = <<S_Default>>
    /\ run = IdleRun
    /\ detached = <<>>
    /\ commands = 0
    /\ hist = <<>>
    /\ arg = <<>>
    /\ result = <<>>
    /\ watcher = [currentProfile |-> ProfileNameIn(fs),
                  handlers |-> <<>>, runs |-> <<>>,
                  events |-> 0, changes |-> 0, handled |-> 0, started |-> 0]

\* The editor writes, creates or deletes storage.json; the watcher calls
\* onChange
StoreChange ==
    /\ watcher.events < MaxEvents
    /\ \E store \in StoreContents :
        /\ ~(store = Missing /\ fs[GlobalStoragePath] = Missing)
        /\ fs' = [fs EXCEPT ![GlobalStoragePath] = store]
        /\ watcher' = [watcher EXCEPT
              !.events = @ + 1,
              !.changes = IF ProfileNameIn(fs') # ProfileNameIn(fs)
                          THEN @ + 1 ELSE @,
              !.handlers = @ \o Notify(GlobalStoragePath),
              !.handled = @ + Len(Notify(GlobalStoragePath))]
    /\ UNCHANGED <<parents, run, detached, commands, hist, arg, result>>

\* onChange: the read of getCurrentProfileName completes
HandlerRead ==
    \E h \in 1 .. Len(watcher.handlers) :
        /\ watcher.handlers[h].pc = "read"
        /\ watcher' = [watcher EXCEPT
              !.handlers[h] = [pc |-> "resume", name |-> ProfileNameIn(fs)]]
        /\ UNCHANGED <<fs, parents, run, detached, commands, hist, arg, result>>

\* onChange resumes after its await, in whatever order the reads were
\* delivered: it compares the names and calls updateCurrentProfileInheritance
HandlerResume ==
    \E h \in 1 .. Len(watcher.handlers) :
        /\ watcher.handlers[h].pc = "resume"
        /\ LET newProfileName == watcher.handlers[h].name
               others == DropTask(watcher.handlers, h)
           IN  IF newProfileName # watcher.currentProfile
               THEN watcher' = [watcher EXCEPT
                        !.currentProfile = newProfileName,
                        !.handlers = others,
                        !.runs = Append(@, [pc |-> "resolve", path |-> <<>>]),
                        !.started = @ + 1]
               ELSE watcher' = [watcher EXCEPT !.handlers = others]
        /\ UNCHANGED <<fs, parents, run, detached, commands, hist, arg, result>>

\* applyInheritedSettings of a run the watcher started resolves the current
\* profile's settings.json
WatcherRunResolve ==
    \E r \in 1 .. Len(watcher.runs) :
        /\ watcher.runs[r].pc = "resolve"
        /\ LET storage == ReadJSON(fs[GlobalStoragePath])
               currentProfileName == GetCurrentProfileName(storage)
               profiles == GetProfileMap(storage, UserDirectory)
           IN  watcher' = [watcher EXCEPT
                   !.runs = IF ~HasOwn(profiles, currentProfileName.s)
                            THEN DropTask(@, r)
                            ELSE [@ EXCEPT ![r] =
                                    [pc |-> "write",
                                     path |-> SettingsPath(
                                         Get(profiles, currentProfileName.s))]]]
        /\ UNCHANGED <<fs, parents, run, detached, commands, hist, arg, result>>

\* The file operations of that run, taken together and with the removal
\* first: the old block is removed, the settings are read and the new block is
\* inserted. The write is a file event at the profile's settings.json.
WatcherRunWrite ==
    \E r \in 1 .. Len(watcher.runs) :
        /\ watcher.runs[r].pc = "write"
        /\ LET path == watcher.runs[r].path
               cleaned == [fs EXCEPT ![path] = RemoveBlock(fs[path])]
               storage == ReadJSON(fs[GlobalStoragePath])
               profileMap == GetProfileMap(storage, UserDirectory)
               json == JsonOf(cleaned)
               own == FlattenSettings(
                          GetProfileSettings(profileMap, json,
                              <<GetCurrentProfileName(storage).s>>),
                          <<>>, <<>>)
               inherited ==
                   SortSettings(SubtractSettings(
                       FlattenSettings(
                           GetProfileSettings(profileMap, json, parents),
                           <<>>, <<>>),
                       own))
           IN  /\ fs' = IF Len(inherited) = 0 THEN cleaned
                        ELSE [cleaned EXCEPT
                                ![path] = InsertBlock(cleaned[path], inherited)]
               /\ watcher' = [watcher EXCEPT
                     !.runs = DropTask(@, r),
                     !.handlers = @ \o Notify(path),
                     !.handled = @ + Len(Notify(path))]
        /\ UNCHANGED <<parents, run, detached, commands, hist, arg, result>>

NextWatcher ==
    \/ StoreChange
    \/ HandlerRead
    \/ HandlerResume
    \/ WatcherRunResolve
    \/ WatcherRunWrite

SpecWatcher == InitWatcher /\ [][NextWatcher]_vars

\* C16: the watcher's handlers start an apply run only for a change of the
\* active profile: there are no more runs started than store-change events
\* that changed the active profile, and the runs' own writes to settings.json
\* start no handler (every handler started is that of a store-change event).
C16_RunsOnlyOnProfileChange ==
    /\ watcher.started <= watcher.changes
    /\ watcher.handled = watcher.events

\* C30: once every handler of the watcher has completed, the runs they
\* started included, the name the watcher remembers is the active profile of
\* storage.json as it stands.
C30_RemembersActiveProfile ==
    (watcher.handlers = <<>> /\ watcher.runs = <<>>)
    => watcher.currentProfile = ProfileNameIn(fs)

\* C24: when storage.json cannot be read or holds no JSON value, no store
\* reader fails: getCustomProfiles returns the empty list,
\* getCurrentProfileName returns "Default" and getProfileMap returns exactly
\* {Default: user directory}.
C24_UnreadableStoreIsDefault ==
    (~arg.readable /\ result.op # "none") =>
        /\ result.op # "failed"
        /\ result.op = "profiles" => result.profiles = <<>>
        /\ result.op = "name" => result.name = Str(S_Default)
        /\ result.op = "map" => result.map = <<Entry(S_Default, UserDirectory)>>

\* C29: the name getCurrentProfileName returns is a key of the map
\* getProfileMap returns for the same store: profiles[currentProfileName] is
\* defined when the settings.json path is built.
C29_ActiveProfileInMap ==
    result.op = "directory" =>
        /\ result.name.t = "str"
        /\ HasOwn(result.map, result.name.s)
        /\ result.threw = ""

\* What each character of a text belongs to when strings are opened by either
\* quote and end at the next matching quote that no backslash escapes, and at
\* nothing else; mode is "code", "line", "block", or the quote of the string
\* the scan is in
RECURSIVE QuotedFrom(_, _, _)
QuotedFrom(text, i, mode) ==
    IF i >= Len(text) THEN <<>>
    ELSE
    LET char == CharAt(text, i)
        nextChar == CharAt(text, i + 1)
    IN  CASE mode = "code" ->
                IF char \in {"\"", "'"}
                THEN <<"string">> \o QuotedFrom(text, i + 1, char)
                ELSE IF char = "/" /\ nextChar = "/"
                THEN <<"comment", "comment">> \o QuotedFrom(text, i + 2, "line")
                ELSE IF char = "/" /\ nextChar = "*"
                THEN <<"comment", "comment">> \o QuotedFrom(text, i + 2, "block")
                ELSE <<"code">> \o QuotedFrom(text, i + 1, "code")
          [] mode = "line" ->
                IF char = "\n" THEN <<"code">> \o QuotedFrom(text, i + 1, "code")
                ELSE <<"comment">> \o QuotedFrom(text, i + 1, "line")
          [] mode = "block" ->
                IF char = "*" /\ nextChar = "/"
                THEN <<"comment", "comment">> \o QuotedFrom(text, i + 2, "code")
                ELSE <<"comment">> \o QuotedFrom(text, i + 1, "block")
          [] OTHER ->
                IF char = mode THEN <<"string">> \o QuotedFrom(text, i + 1, "code")
                ELSE IF char = "\\" /\ nextChar # "undefined"
                THEN <<"string", "string">> \o QuotedFrom(text, i + 2, mode)
                ELSE <<"string">> \o QuotedFrom(text, i + 1, mode)

\* C23: getLastMeaningfulCharacterIndex returns the index of the last
\* character that is part of a string, or is outside the comments and no
\* whitespace, where a string ends at the first matching quote that is not
\* escaped; -1 when the text has no such character.
C23_LastMeaningfulIndex ==
    result.op = "last" =>
        LET class == QuotedFrom(arg.text, 0, "code")
            meaningful ==
                {i \in 1 .. Len(arg.text) :
                    \/ class[i] = "string"
                    \/ class[i] = "code" /\ ~IsWhitespace(arg.text[i])}
        IN  result.index = IF meaningful = {} THEN -1 ELSE MaxOf(meaningful) - 1

\* The 1-based positions of text that hold character c as code, outside
\* strings and comments
CodePositions(text, c) ==
    LET class == Lex(text)
    IN  {i \in 1 .. Len(text) : text[i] = c /\ class[i] = "code"}

\* A JSONC document that is one flat object: its code begins with the one
\* opening brace and ends with the one closing brace
ObjectDocument(text) ==
    LET class == Lex(text)
        code == {i \in 1 .. Len(text) :
                    class[i] = "code" /\ ~IsWhitespace(text[i])}
    IN  /\ Cardinality(CodePositions(text, "{")) = 1
        /\ Cardinality(CodePositions(text, "}")) = 1
        /\ CodePositions(text, "{") = {MinOf(code)}
        /\ CodePositions(text, "}") = {MaxOf(code)}

\* C21: after insertBlock with a non-empty overlay on a valid JSONC document,
\* the output is a valid JSONC document, the block is the last content before
\* the closing brace of its object, and its parsed keys are the input's keys
\* plus the overlay's keys, whatever surrounds the insertion point.
C21_BlockLastInsideObject ==
    \A n \in 1 .. Len(result.ops) :
        LET in == result.texts[n]
            out == result.texts[n + 1]
        IN  (/\ result.ops[n] = "insert"
             /\ NoMarkers(in)
             /\ arg.flattened # <<>>
             /\ ObjectDocument(in))
            => /\ ObjectDocument(out)
               /\ LET close == MaxOf(CodePositions(out, "}")) - 1
                       end == IndexOf(out, INHERITED_SETTINGS_END_MARKER)
                                + Len(INHERITED_SETTINGS_END_MARKER)
                   IN  /\ end <= close
                       /\ NonWhitespace(Slice(out, end, close)) = <<>>
               /\ KeySet(ParseJsonc(out).o)
                    = KeySet(ParseJsonc(in).o) \cup KeySet(arg.flattened)

\* The 0-based index of the last character of text that is part of a string
\* or is code other than whitespace, -1 when there is none
LastMeaningful(text) ==
    LET class == Lex(text)
        meaningful == {i \in 1 .. Len(text) :
                        \/ class[i] = "string"
                        \/ class[i] = "code" /\ ~IsWhitespace(text[i])}
    IN  IF meaningful = {} THEN -1 ELSE MaxOf(meaningful) - 1

\* C22: insertBlock inserts exactly one separator, immediately after the last
\* meaningful character of the text before the closing brace and so before any
\* trailing comment, unless that character is an opening brace or a separator
\* or there is none, and then it inserts no separator.
C22_SeparatorAfterLastMeaningful ==
    \A n \in 1 .. Len(result.ops) :
        LET in == result.texts[n]
            out == result.texts[n + 1]
            beforeClose == SplitRawSettingsByClosingBrace(in)[1]
            last == LastMeaningful(beforeClose)
            written == Slice(out, 0, IndexOf(out, INHERITED_SETTINGS_START_MARKER))
        IN  (/\ result.ops[n] = "insert"
             /\ NoMarkers(in)
             /\ HasClosingBrace(in)
             /\ arg.flattened # <<>>)
            => IF last = -1 \/ CharAt(beforeClose, last) \in {"{", ","}
               THEN NonWhitespace(written) = NonWhitespace(beforeClose)
               ELSE /\ Slice(written, 0, last + 2)
                        = Slice(beforeClose, 0, last + 1) \o <<",">>
                    /\ NonWhitespace(SliceFrom(written, last + 2))
                        = NonWhitespace(SliceFrom(beforeClose, last + 1))

(***************************************************************************)
(* The two recursive traversals on object graphs. An object is a node with *)
(* an identity; heap[n] is the set of objects that are property values of  *)
(* object n, which Object.values and Object.entries yield in key order.    *)
(* Scalar property values end the recursion at once and are left out.      *)
(***************************************************************************)

\* How many objects a graph holds
MaxNodes == 2

\* How many nested calls the engine's stack holds before it throws RangeError
MaxCalls == 4

Nodes == 1 .. MaxNodes

\* Every graph over the objects, cyclic ones and ones with shared objects
\* included; object 1 is the input of the traversal
Heaps == [Nodes -> SUBSET Nodes]

\* The object-valued property values of object n, in key order
RECURSIVE Ascending(_)
Ascending(S) ==
    IF S = {} THEN <<>> ELSE <<MinOf(S)>> \o Ascending(S \ {MinOf(S)})

Values(heap, n) == Ascending(heap[n])

\* One call in progress: the object it iterates and the values still to come
Frame(heap, n) == [node |-> n, rest |-> Values(heap, n)]

Traversal(pc, stack, seen, visits, found) ==
    [pc |-> pc, stack |-> stack, seen |-> seen, visits |-> visits,
     found |-> found]

\* target is the object whose own property key equals value, 0 when none is
InitGraph ==
    /\ ProgramAtRest
    /\ arg \in [op : {"search"}, heap : Heaps, target : 0 .. MaxNodes]
                \cup [op : {"flatten"}, heap : Heaps, target : {0}]
    /\ result = Traversal("start", <<>>, {}, [n \in Nodes |-> 0], 0)

Visit(visits, n) == [visits EXCEPT ![n] = @ + 1]

\* findByKeyValuePair: dfs(node) up to its first nested call or its return.
\* The input is entered with an empty seen set; a node already seen returns
\* undefined, a node with the pair is returned through every caller.
Dfs ==
    /\ arg.op = "search"
    /\ result.pc \in {"start", "running"}
    /\ LET Enter(n, callers) ==
            IF n \in result.seen
            THEN Traversal("running", callers, result.seen, result.visits, 0)
            ELSE IF n = arg.target
            THEN Traversal("returned", <<>>, result.seen \cup {n},
                           Visit(result.visits, n), n)
            ELSE Traversal("running", Append(callers, Frame(arg.heap, n)),
                           result.seen \cup {n}, Visit(result.visits, n), 0)
           depth == Len(result.stack)
       IN  result' =
            IF result.pc = "start" THEN Enter(1, <<>>)
            ELSE IF depth = 0
            THEN Traversal("returned", <<>>, result.seen, result.visits, 0)
            ELSE LET top == result.stack[depth]
                 IN  IF top.rest = <<>>
                     THEN [result EXCEPT !.stack = SubSeq(@, 1, depth - 1)]
                     ELSE Enter(Head(top.rest),
                                [result.stack EXCEPT ![depth].rest = Tail(@)])
    /\ UNCHANGED <<program, arg, watcher>>

\* flattenSettings: one call up to its next nested call or its return. A value
\* that is an object is entered whether or not it was entered before; a call
\* nested deeper than the stack holds throws RangeError.
FlattenSettingsCall ==
    /\ arg.op = "flatten"
    /\ result.pc \in {"start", "running"}
    /\ LET Enter(n, callers) ==
            IF Len(callers) >= MaxCalls
            THEN Traversal("RangeError", <<>>, {}, Visit(result.visits, n), 0)
            ELSE Traversal("running", Append(callers, Frame(arg.heap, n)), {},
                           Visit(result.visits, n), 0)
           depth == Len(result.stack)
       IN  result' =
            IF result.pc = "start" THEN Enter(1, <<>>)
            ELSE IF depth = 0
            THEN Traversal("returned", <<>>, {}, result.visits, 0)
            ELSE LET top == result.stack[depth]
                 IN  IF top.rest = <<>>
                     THEN [result EXCEPT !.stack = SubSeq(@, 1, depth - 1)]
                     ELSE Enter(Head(top.rest),
                                [result.stack EXCEPT ![depth].rest = Tail(@)])
    /\ UNCHANGED <<program, arg, watcher>>

NextGraph ==
    \/ Dfs
    \/ FlattenSettingsCall

SpecGraph == InitGraph /\ [][NextGraph]_vars

\* C25: the structural search and flatten terminate on every input, cyclic
\* object graphs included, because each enters any object at most once: no
\* traversal enters an object twice and none ends by exhausting the stack.
C25_EachObjectVisitedOnce ==
    /\ \A n \in Nodes : result.visits[n] <= 1
    /\ result.pc # "RangeError"

(***************************************************************************)
(* The commands when fs.writeFile may reject. result is the set of writes  *)
(* that failed, each with the step it belongs to, the operation running    *)
(* when it failed, how many commands had returned and how many had started *)
(* an apply run by then.                                                   *)
(***************************************************************************)

InitFailure ==
    /\ \E active \in {StaleDocument, Missing}
                        \cup {UserDocument(tree, FourSpaces, FALSE, FALSE, <<"\n">>) :
                                tree \in ActiveTrees},
          parent \in ParentFiles :
          fs = (GlobalStoragePath :> JsonStringify(StorageValue(S_workLocation)))
               @@ (SettingsPath(UserDirectory) :> parent)
               @@ (SettingsPath(WorkDirectory) :> active)
    /\ parents \in ParentLists
    /\ run = IdleRun
    /\ detached = <<>>
    /\ commands = 0
    /\ hist = <<>>
    /\ arg = <<>>
    /\ result = {}
    /\ watcher = NoWatcher

\* How many apply runs have been started
AppliesStarted ==
    Cardinality({k \in 1 .. Len(hist) : hist[k].op = "apply"})
        + (IF run.op = "apply" THEN 1 ELSE 0)

FailedWrite(step) ==
    [step |-> step, running |-> run.op, returned |-> Len(hist),
     applies |-> AppliesStarted]

\* writeInheritedSettings' fs.writeFile rejects: the awaited call throws and
\* applyInheritedSettings with it
ApplyInsertWriteFails ==
    /\ run.op = "apply" /\ run.pc = "insertWrite"
    /\ run' = [run EXCEPT !.pc = "failed"]
    /\ result' = result \cup {FailedWrite("insert")}
    /\ UNCHANGED <<fs, parents, detached, commands, hist, arg, watcher>>

\* The awaited removeInheritedSettingsFromFile's fs.writeFile rejects
RemoveWriteFails ==
    /\ run.op = "remove" /\ run.pc = "removeWrite"
    /\ run' = [run EXCEPT !.pc = "failed"]
    /\ result' = result \cup {FailedWrite("remove")}
    /\ UNCHANGED <<fs, parents, detached, commands, hist, arg, watcher>>

\* The fs.writeFile of a removeInheritedSettingsFromFile call nobody awaits
\* rejects: the rejection has no handler and no caller sees it
DetachedWriteFails ==
    /\ \E t \in 1 .. Len(detached) :
        /\ detached[t].pc = "write"
        /\ detached' = DropTask(detached, t)
    /\ result' = result \cup {FailedWrite("remove")}
    /\ UNCHANGED <<fs, parents, run, commands, hist, arg, watcher>>

NextFailure ==
    \/ StartApply
    \/ ApplyReadOwn
    \/ ApplyReadParent
    \/ ApplyDiff
    \/ ApplyInsertRead
    \/ ApplyInsertWrite
    \/ StartRemove
    \/ RemoveRead
    \/ RemoveWrite
    \/ DetachedRead
    \/ DetachedWrite
    \/ Return
    \/ ApplyInsertWriteFails
    \/ RemoveWriteFails
    \/ DetachedWriteFails

SpecFailure == InitFailure /\ [][NextFailure]_vars

\* C26: a write failure in any step of an apply run, in the removal's write or
\* in the insertion's, makes the run fail: a run does not report success after
\* one of its writes failed. A failed write is the k-th command's own when it
\* failed while that command was the apply run in progress and it was the
\* insertion's write or the removal's of the only apply run started so far.
C26_WriteFailureFailsRun ==
    \A k \in 1 .. Len(hist) :
        \A f \in result :
            (/\ hist[k].op = "apply"
             /\ f.running = "apply"
             /\ f.returned = k - 1
             /\ f.step = "insert" \/ f.applies = 1)
            => hist[k].outcome = "failed"

\* C27: the trigger wiring serializes the runs: at no time are two runs in
\* progress on the same settings.json, each past resolving its path and with
\* its file operations still to come.
C27_RunsSerialized ==
    \A r1, r2 \in 1 .. Len(watcher.runs) :
        (/\ r1 # r2
         /\ watcher.runs[r1].pc = "write"
         /\ watcher.runs[r2].pc = "write")
        => watcher.runs[r1].path # watcher.runs[r2].path

====
